---- MODULE Spec2Model ----
(***************************************************************************)
(* A model of the quant_ui feature-power core: the trading calendar        *)
(* (src/app/calendar.py), the forward-return target builder                *)
(* (src/app/main.py, _build_target_map), the statistics helpers and the    *)
(* three feature-power endpoints of src/app/main.py, and the drawdown      *)
(* analysis of src/backend/app/api/v1/routes.py.  Each component has its   *)
(* own specification over the one list of variables.                       *)
(*                                                                         *)
(* Date strings are modelled as integers: the code only ever compares them *)
(* (<, >, ==) and uses them as dictionary keys, so a date is a point of a  *)
(* total order.  Python's None / an absent dictionary entry is an element  *)
(* missing from a function's DOMAIN.                                       *)
(***************************************************************************)
EXTENDS Integers, Sequences, FiniteSets, TLC

\* ------------------------------------------------------------------ bounds
\* Calendar dates are 1..MaxDate; request bounds also take the days just
\* before (0) and just after (MaxDate + 1) every calendar date.
MaxDate == 3
\* Longest calendar file, in lines.
MaxLines == 3
\* Largest horizon_days of a request.
MaxHorizon == 2

Dates == 1..MaxDate
BoundDates == 0..(MaxDate + 1)

\* ------------------------------------------------------- the calendar file
\* A line of the calendar file after strip(): empty, a comment, a text that
\* strptime rejects, or a date.
BlankLine == [kind |-> "blank", date |-> 0]
CommentLine == [kind |-> "comment", date |-> 0]
BadLine == [kind |-> "bad", date |-> 0]
DateLine(d) == [kind |-> "date", date |-> d]
Lines == {BlankLine, CommentLine, BadLine} \cup {DateLine(d) : d \in Dates}

RECURSIVE SeqsUpTo(_, _)
SeqsUpTo(S, n) ==
    IF n = 0 THEN {<<>>}
    ELSE LET shorter == SeqsUpTo(S, n - 1)
         IN  shorter \cup {Append(s, x) : s \in {t \in shorter : Len(t) = n - 1}, x \in S}

Files == SeqsUpTo(Lines, MaxLines)

\* load_calendar's loop over the lines from position i on, dates collected so
\* far in acc: a blank or comment line is skipped, a malformed line raises
\* at once, any other line is appended as it stands.
RECURSIVE load_lines(_, _, _)
load_lines(file, i, acc) ==
    IF i > Len(file) THEN [status |-> "ok", dates |-> acc]
    ELSE IF file[i] = BlankLine \/ file[i] = CommentLine
         THEN load_lines(file, i + 1, acc)
    ELSE IF file[i] = BadLine
         THEN [status |-> "ValueError", dates |-> <<>>]
    ELSE load_lines(file, i + 1, Append(acc, file[i].date))

\* load_calendar: the dates of the file in file order; an empty result is an
\* error.
load_calendar(file) ==
    LET got == load_lines(file, 1, <<>>)
    IN  IF got.status = "ok" /\ got.dates = <<>>
        THEN [status |-> "ValueError", dates |-> <<>>]
        ELSE got

\* build_calendar_index: {date: idx for idx, date in enumerate(calendar)};
\* a later occurrence of a date overwrites an earlier one.  Indices are
\* Python's (0-based).
SeqRange(s) == {s[i] : i \in 1..Len(s)}
MaxOf(S) == CHOOSE x \in S : \A y \in S : y <= x

build_calendar_index(calendar) ==
    [d \in SeqRange(calendar) |->
        MaxOf({i \in 1..Len(calendar) : calendar[i] = d}) - 1]

\* bisect.bisect_left(a, x) and bisect.bisect_right(a, x), as the standard
\* library computes them (binary search between lo and hi, 0-based).
RECURSIVE bisect_left_from(_, _, _, _)
bisect_left_from(a, x, lo, hi) ==
    IF lo >= hi THEN lo
    ELSE LET mid == (lo + hi) \div 2
         IN  IF a[mid + 1] < x THEN bisect_left_from(a, x, mid + 1, hi)
             ELSE bisect_left_from(a, x, lo, mid)

bisect_left(a, x) == bisect_left_from(a, x, 0, Len(a))

RECURSIVE bisect_right_from(_, _, _, _)
bisect_right_from(a, x, lo, hi) ==
    IF lo >= hi THEN lo
    ELSE LET mid == (lo + hi) \div 2
         IN  IF x < a[mid + 1] THEN bisect_right_from(a, x, lo, mid)
             ELSE bisect_right_from(a, x, mid + 1, hi)

bisect_right(a, x) == bisect_right_from(a, x, 0, Len(a))

Min2(a, b) == IF a <= b THEN a ELSE b
Max2(a, b) == IF a >= b THEN a ELSE b

\* The two indices slice_calendar resolves for (start, end), after clamping.
resolved_start_idx(calendar, index, start) ==
    LET start_idx == IF start \in DOMAIN index THEN index[start]
                     ELSE bisect_left(calendar, start)
    IN  Max2(0, Min2(start_idx, Len(calendar)))

\* Faulty variant: the end index stops one short and is not clamped.
resolved_end_idx_one_short(calendar, index, end) ==
    IF end \in DOMAIN index THEN index[end] - 1
    ELSE bisect_right(calendar, end) - 2

resolved_end_idx(calendar, index, end) ==
    LET end_idx == IF end \in DOMAIN index THEN index[end]
                   ELSE bisect_right(calendar, end) - 1
    IN  Max2(-1, Min2(end_idx, Len(calendar) - 1))

\* slice_calendar: ValueError when start > end, otherwise
\* calendar[start_idx : end_idx + 1], the empty list when start_idx > end_idx.
\* Four faulty variants come first: without the range check, with the end
\* bound rounded up, raising on an empty window, and with the end excluded.
slice_calendar_without_range_check(calendar, index, start, end) ==
    LET start_idx == resolved_start_idx(calendar, index, start)
        end_idx == resolved_end_idx(calendar, index, end)
    IN  IF start_idx > end_idx
        THEN [status |-> "ok", value |-> <<>>]
        ELSE [status |-> "ok", value |-> SubSeq(calendar, start_idx + 1, end_idx + 1)]

slice_calendar_end_rounds_up(calendar, index, start, end) ==
    IF start > end THEN [status |-> "ValueError", value |-> <<>>]
    ELSE LET start_idx == resolved_start_idx(calendar, index, start)
             end_idx == Max2(-1, Min2(IF end \in DOMAIN index THEN index[end]
                                      ELSE bisect_right(calendar, end),
                                      Len(calendar) - 1))
         IN  IF start_idx > end_idx
             THEN [status |-> "ok", value |-> <<>>]
             ELSE [status |-> "ok", value |-> SubSeq(calendar, start_idx + 1, end_idx + 1)]

slice_calendar_raising_on_empty(calendar, index, start, end) ==
    IF start > end THEN [status |-> "ValueError", value |-> <<>>]
    ELSE LET start_idx == resolved_start_idx(calendar, index, start)
             end_idx == resolved_end_idx(calendar, index, end)
         IN  IF start_idx > end_idx
             THEN [status |-> "ValueError", value |-> <<>>]
             ELSE [status |-> "ok", value |-> SubSeq(calendar, start_idx + 1, end_idx + 1)]

slice_calendar_exclusive_end(calendar, index, start, end) ==
    IF start > end THEN [status |-> "ValueError", value |-> <<>>]
    ELSE LET start_idx == resolved_start_idx(calendar, index, start)
             end_idx == resolved_end_idx(calendar, index, end)
         IN  IF start_idx > end_idx
             THEN [status |-> "ok", value |-> <<>>]
             ELSE [status |-> "ok", value |-> SubSeq(calendar, start_idx + 1, end_idx)]

slice_calendar(calendar, index, start, end) ==
    IF start > end THEN [status |-> "ValueError", value |-> <<>>]
    ELSE LET start_idx == resolved_start_idx(calendar, index, start)
             end_idx == resolved_end_idx(calendar, index, end)
         IN  IF start_idx > end_idx
             THEN [status |-> "ok", value |-> <<>>]
             ELSE [status |-> "ok", value |-> SubSeq(calendar, start_idx + 1, end_idx + 1)]

\* ------------------------------------------------------ the target builder
\* The price provider (qlib's D.features) answers a request for $open and
\* $close with None or an empty frame, or with a frame of rows.  A frame
\* normally carries the date, instrument, open and close columns; the code
\* also handles a frame that lacks one of them.  Rows are keyed by date; the
\* provider reads the same calendar file, so its rows fall on the trading
\* days of the requested range.  One frame holds the rows of one instrument,
\* under the label the provider stores it by.  A price is missing (NaN), zero
\* or positive; the positive open and close differ, so that the three target
\* kinds give different returns.
NaN == -1
OpenValues == {NaN, 0, 1}
CloseValues == {NaN, 0, 2}
Bars == [open : OpenValues, close : CloseValues]
ProviderLabels == {"A"}
Universes == {<<"a">>}
Targets == {"ret_cc", "close_open", "open_open", "ret_oc"}
Horizons == (-1)..MaxHorizon

NotFetched == [kind |-> "unfetched", label |-> "", rows |-> <<>>]
EmptyData == [kind |-> "empty", label |-> "", rows |-> <<>>]
NoColumns == [kind |-> "nocols", label |-> "", rows |-> <<>>]
Frames(days) ==
    IF days = {} THEN {}
    ELSE {[kind |-> "frame", label |-> l, rows |-> r] :
             l \in ProviderLabels, r \in [days -> Bars]}
ProviderData(days) == {EmptyData, NoColumns} \cup Frames(days)

\* str(...).lower() on an instrument label.
Lower(label) == IF label = "A" THEN "a" ELSE IF label = "B" THEN "b" ELSE label

\* _is_missing: None, or a float NaN.
_is_missing(value) == value = NaN

\* open_map.get(instrument, {}) and close_map.get(instrument, {}) after the
\* loop over the frame's rows: the non-missing prices of the rows whose
\* lower-cased label is the instrument, by date.
open_series_of(data, instrument) ==
    IF data.kind = "frame" /\ Lower(data.label) = instrument
    THEN [d \in {x \in DOMAIN data.rows : ~_is_missing(data.rows[x].open)} |->
             data.rows[d].open]
    ELSE <<>>

close_series_of(data, instrument) ==
    IF data.kind = "frame" /\ Lower(data.label) = instrument
    THEN [d \in {x \in DOMAIN data.rows : ~_is_missing(data.rows[x].close)} |->
             data.rows[d].close]
    ELSE <<>>

\* (future / now) - 1.0 as the exact fraction (future - now) / now; the code
\* computes it in floating point, which is exact on the prices used here.
Ret(future, now) == [num |-> future - now, den |-> now]
NoValue == [num |-> 0, den |-> 0]

\* Faulty variant: calendar[horizon_days:], dropping the first entries.
valid_dates_of_dropping_first(calendar, horizon_days) ==
    IF horizon_days > 0
    THEN SubSeq(calendar, Min2(horizon_days, Len(calendar)) + 1, Len(calendar))
    ELSE calendar

\* calendar[: -horizon_days] for horizon_days > 0, the calendar itself for 0.
valid_dates_of(calendar, horizon_days) ==
    IF horizon_days > 0
    THEN SubSeq(calendar, 1, Max2(Len(calendar) - horizon_days, 0))
    ELSE calendar

\* Faulty variant: numerator and denominator exchanged.
target_value_now_over_future(target, open_series, close_series, calendar, horizon_days, day) ==
    LET calendar_lookup == build_calendar_index(calendar)
        skip == [kind |-> "skip", value |-> NoValue]
    IN  IF day \notin DOMAIN calendar_lookup THEN skip
        ELSE LET future_idx == calendar_lookup[day] + horizon_days
             IN  IF future_idx >= Len(calendar) THEN skip
                 ELSE LET future_day == calendar[future_idx + 1]
                      IN  IF target = "ret_cc"
                          THEN IF future_day \notin DOMAIN close_series THEN skip
                               ELSE IF day \notin DOMAIN close_series \/ close_series[future_day] = 0 THEN skip
                               ELSE [kind |-> "value",
                                     value |-> Ret(close_series[day], close_series[future_day])]
                          ELSE IF target = "close_open"
                          THEN IF future_day \notin DOMAIN close_series THEN skip
                               ELSE IF day \notin DOMAIN open_series \/ close_series[future_day] = 0 THEN skip
                               ELSE [kind |-> "value",
                                     value |-> Ret(open_series[day], close_series[future_day])]
                          ELSE IF target = "open_open"
                          THEN IF future_day \notin DOMAIN open_series THEN skip
                               ELSE IF day \notin DOMAIN open_series \/ open_series[future_day] = 0 THEN skip
                               ELSE [kind |-> "value",
                                     value |-> Ret(open_series[day], open_series[future_day])]
                          ELSE [kind |-> "raise", value |-> NoValue]

\* Faulty variant: a zero denominator is not skipped.
target_value_keeping_zero_denominator(target, open_series, close_series, calendar, horizon_days, day) ==
    LET calendar_lookup == build_calendar_index(calendar)
        skip == [kind |-> "skip", value |-> NoValue]
    IN  IF day \notin DOMAIN calendar_lookup THEN skip
        ELSE LET future_idx == calendar_lookup[day] + horizon_days
             IN  IF future_idx >= Len(calendar) THEN skip
                 ELSE LET future_day == calendar[future_idx + 1]
                      IN  IF target = "ret_cc"
                          THEN IF future_day \notin DOMAIN close_series THEN skip
                               ELSE IF day \notin DOMAIN close_series THEN skip
                               ELSE [kind |-> "value",
                                     value |-> Ret(close_series[future_day], close_series[day])]
                          ELSE IF target = "close_open"
                          THEN IF future_day \notin DOMAIN close_series THEN skip
                               ELSE IF day \notin DOMAIN open_series THEN skip
                               ELSE [kind |-> "value",
                                     value |-> Ret(close_series[future_day], open_series[day])]
                          ELSE IF target = "open_open"
                          THEN IF future_day \notin DOMAIN open_series THEN skip
                               ELSE IF day \notin DOMAIN open_series THEN skip
                               ELSE [kind |-> "value",
                                     value |-> Ret(open_series[future_day], open_series[day])]
                          ELSE [kind |-> "raise", value |-> NoValue]

\* The body of the loop over valid_dates for one instrument and one day:
\* "skip" for a continue, "raise" for the unknown-target ValueError, "value"
\* for a computed target.
target_value(target, open_series, close_series, calendar, horizon_days, day) ==
    LET calendar_lookup == build_calendar_index(calendar)
        skip == [kind |-> "skip", value |-> NoValue]
    IN  IF day \notin DOMAIN calendar_lookup THEN skip
        ELSE LET future_idx == calendar_lookup[day] + horizon_days
             IN  IF future_idx >= Len(calendar) THEN skip
                 ELSE LET future_day == calendar[future_idx + 1]
                      IN  IF target = "ret_cc"
                          THEN IF future_day \notin DOMAIN close_series THEN skip
                               ELSE IF day \notin DOMAIN close_series \/ close_series[day] = 0 THEN skip
                               ELSE [kind |-> "value",
                                     value |-> Ret(close_series[future_day], close_series[day])]
                          ELSE IF target = "close_open"
                          THEN IF future_day \notin DOMAIN close_series THEN skip
                               ELSE IF day \notin DOMAIN open_series \/ open_series[day] = 0 THEN skip
                               ELSE [kind |-> "value",
                                     value |-> Ret(close_series[future_day], open_series[day])]
                          ELSE IF target = "open_open"
                          THEN IF future_day \notin DOMAIN open_series THEN skip
                               ELSE IF day \notin DOMAIN open_series \/ open_series[day] = 0 THEN skip
                               ELSE [kind |-> "value",
                                     value |-> Ret(open_series[future_day], open_series[day])]
                          ELSE [kind |-> "raise", value |-> NoValue]

\* target_map.setdefault(day, {})[instrument] = value
set_target(target_map, day, instrument, value) ==
    LET old == IF day \in DOMAIN target_map THEN target_map[day] ELSE <<>>
        new == [i \in DOMAIN old \cup {instrument} |->
                   IF i = instrument THEN value ELSE old[i]]
    IN  [d \in DOMAIN target_map \cup {day} |->
            IF d = day THEN new ELSE target_map[d]]

\* The two nested loops of _build_target_map, from instrument number i and
\* valid date number j on; the first raise ends them.
RECURSIVE target_loops(_, _, _, _)
target_loops(c, i, j, target_map) ==
    IF i > Len(c.instruments) THEN [status |-> "ok", target_map |-> target_map]
    ELSE IF j > Len(c.valid_dates) THEN target_loops(c, i + 1, 1, target_map)
    ELSE LET instrument == c.instruments[i]
             day == c.valid_dates[j]
             got == target_value(c.target, open_series_of(c.data, instrument),
                                 close_series_of(c.data, instrument),
                                 c.calendar, c.horizon_days, day)
         IN  IF got.kind = "raise" THEN [status |-> "ValueError", target_map |-> <<>>]
             ELSE IF got.kind = "skip" THEN target_loops(c, i, j + 1, target_map)
             ELSE target_loops(c, i, j + 1,
                               set_target(target_map, day, instrument, got.value))

\* _build_target_map up to the price request: the outcome when it ends
\* before asking the provider, "fetch" when it asks.
before_fetch(start, end, horizon_days, calendar, index, qlib) ==
    IF horizon_days < 0
    THEN [status |-> "ValueError", calendar |-> <<>>]
    ELSE IF ~qlib
    THEN [status |-> "RuntimeError", calendar |-> <<>>]
    ELSE LET sliced == slice_calendar(calendar, index, start, end)
         IN  IF sliced.status # "ok" THEN [status |-> "ValueError", calendar |-> <<>>]
             ELSE IF sliced.value = <<>> THEN [status |-> "ok", calendar |-> <<>>]
             ELSE [status |-> "fetch", calendar |-> sliced.value]

\* Faulty variant: an empty price result is an error.
_build_target_map_raising_on_no_rows(instruments, start, end, horizon_days, target, calendar, index, qlib, data) ==
    LET pre == before_fetch(start, end, horizon_days, calendar, index, qlib)
    IN  IF pre.status # "fetch"
        THEN [status |-> pre.status, target_map |-> <<>>, valid_dates |-> <<>>]
        ELSE LET valid_dates == valid_dates_of(pre.calendar, horizon_days)
             IN  IF data.kind = "empty"
                 THEN [status |-> "ValueError", target_map |-> <<>>, valid_dates |-> <<>>]
                 ELSE IF data.kind = "nocols"
                 THEN [status |-> "ok", target_map |-> <<>>, valid_dates |-> valid_dates]
                 ELSE LET got == target_loops(
                                     [instruments |-> instruments, valid_dates |-> valid_dates,
                                      target |-> target, data |-> data,
                                      calendar |-> pre.calendar,
                                      horizon_days |-> horizon_days], 1, 1, <<>>)
                      IN  IF got.status = "ok"
                          THEN [status |-> "ok", target_map |-> got.target_map,
                                valid_dates |-> valid_dates]
                          ELSE [status |-> got.status, target_map |-> <<>>,
                                valid_dates |-> <<>>]

\* _build_target_map: (status, target_map, valid_dates).  data is what the
\* provider answers if it is asked.
_build_target_map(instruments, start, end, horizon_days, target, calendar, index, qlib, data) ==
    LET pre == before_fetch(start, end, horizon_days, calendar, index, qlib)
    IN  IF pre.status # "fetch"
        THEN [status |-> pre.status, target_map |-> <<>>, valid_dates |-> <<>>]
        ELSE LET valid_dates == valid_dates_of(pre.calendar, horizon_days)
             IN  IF data.kind = "empty" \/ data.kind = "nocols"
                 THEN [status |-> "ok", target_map |-> <<>>, valid_dates |-> valid_dates]
                 ELSE LET got == target_loops(
                                     [instruments |-> instruments, valid_dates |-> valid_dates,
                                      target |-> target, data |-> data,
                                      calendar |-> pre.calendar,
                                      horizon_days |-> horizon_days], 1, 1, <<>>)
                      IN  IF got.status = "ok"
                          THEN [status |-> "ok", target_map |-> got.target_map,
                                valid_dates |-> valid_dates]
                          ELSE [status |-> got.status, target_map |-> <<>>,
                                valid_dates |-> <<>>]

\* ------------------------------------------------------------------- state
VARIABLES
    lines,           \* the calendar file (paths.calendar), line by line
    phase,           \* "boot" before startup, then "ready" or "failed"
    calendar_dates,  \* app.state.calendar_dates
    calendar_index,  \* app.state.calendar_index
    slice_call,      \* the last slice_calendar call: its arguments and outcome
    target_call,     \* the last _build_target_map call: arguments and outcome
    stat_call,       \* the last call of a statistics helper of src/app/main.py
    power_call,      \* the last feature-power request: its inputs and response
    dd_call,         \* the last strategy-analytics request: curve and response
    index_call,      \* the last index-series request: its inputs and response
    request_call,    \* the last raw feature-power request and its HTTP answer
    scan_call,       \* the last scan_curated_root call: the tree and the issues
    http_call,       \* the last request to the read-only backend and its answer
    jobs,            \* JobManager._jobs with each job's worker position
    jobs_store,      \* the lines appended to the job persistence file
    cancel_returns   \* per job, the live statuses at which cancel() returned True

calVars == <<lines, phase, calendar_dates, calendar_index>>
\* The calls of the statistics helpers, of the feature-power endpoints and of
\* the drawdown analytics read nothing of the calendar state.
helperVars == <<stat_call, power_call, dd_call>>
\* The requests to the other endpoints and the job manager likewise.
serviceVars == <<index_call, request_call, scan_call, http_call>>
jobVars == <<jobs, jobs_store, cancel_returns>>
vars == <<lines, phase, calendar_dates, calendar_index, slice_call, target_call,
          stat_call, power_call, dd_call, index_call, request_call, scan_call,
          http_call, jobs, jobs_store, cancel_returns>>

NoSliceCall ==
    [status |-> "idle", start |-> 0, end |-> 0, value |-> <<>>,
     start_idx |-> 0, end_idx |-> 0]
NoTargetCall ==
    [status |-> "idle", instruments |-> <<>>, start |-> 0, end |-> 0,
     horizon_days |-> 0, target |-> "", qlib |-> FALSE, data |-> NotFetched,
     target_map |-> <<>>, valid_dates |-> <<>>]
NoCall == [op |-> "idle"]
\* No request was made yet and the job manager was just constructed, with no
\* persistence file to hydrate from.
InitServices ==
    /\ index_call = NoCall
    /\ request_call = NoCall
    /\ scan_call = NoCall
    /\ http_call = NoCall
    /\ jobs = <<>>
    /\ jobs_store = <<>>
    /\ cancel_returns = <<>>

\* create_app's startup handler: load the calendar and index it; an error
\* raised by load_calendar aborts the startup.
Startup ==
    /\ phase = "boot"
    /\ LET got == load_calendar(lines)
       IN  IF got.status = "ok"
           THEN /\ phase' = "ready"
                /\ calendar_dates' = got.dates
                /\ calendar_index' = build_calendar_index(got.dates)
           ELSE /\ phase' = "failed"
                /\ UNCHANGED <<calendar_dates, calendar_index>>
    /\ UNCHANGED <<lines, slice_call, target_call, helperVars, serviceVars, jobVars>>

\* A call slice_calendar(calendar_dates, calendar_index, start, end).
SliceCalendar ==
    /\ phase = "ready"
    /\ \E start \in BoundDates, end \in BoundDates :
         LET got == slice_calendar(calendar_dates, calendar_index, start, end)
         IN  slice_call' =
               [status |-> got.status, start |-> start, end |-> end,
                value |-> got.value,
                start_idx |-> IF start > end THEN 0
                              ELSE resolved_start_idx(calendar_dates,
                                                      calendar_index, start),
                end_idx |-> IF start > end THEN 0
                            ELSE resolved_end_idx(calendar_dates,
                                                  calendar_index, end)]
    /\ UNCHANGED <<calVars, target_call, helperVars, serviceVars, jobVars>>

\* A call _build_target_map(instruments, start, end, horizon_days, target,
\* calendar_dates, calendar_index), as the feature-power endpoints make it.
\* The provider is asked only when the call gets that far.  The call reads
\* nothing but its arguments and the calendar, so one call per behaviour
\* shows all it can do.
BuildTargetMap ==
    /\ phase = "ready"
    /\ target_call.status = "idle"
    /\ \E instruments \in Universes, start \in Dates, end \in Dates,
          horizon_days \in Horizons, target \in Targets, qlib \in BOOLEAN :
         LET pre == before_fetch(start, end, horizon_days, calendar_dates,
                                 calendar_index, qlib)
         IN  \E data \in (IF pre.status = "fetch"
                          THEN ProviderData(SeqRange(pre.calendar))
                          ELSE {NotFetched}) :
               LET got == _build_target_map(instruments, start, end, horizon_days,
                                            target, calendar_dates, calendar_index,
                                            qlib, data)
               IN  target_call' =
                     [status |-> got.status, instruments |-> instruments,
                      start |-> start, end |-> end, horizon_days |-> horizon_days,
                      target |-> target, qlib |-> qlib, data |-> data,
                      target_map |-> got.target_map, valid_dates |-> got.valid_dates]
    /\ UNCHANGED <<calVars, slice_call, helperVars, serviceVars, jobVars>>

Init ==
    /\ lines \in Files
    /\ phase = "boot"
    /\ calendar_dates = <<>>
    /\ calendar_index = <<>>
    /\ slice_call = NoSliceCall
    /\ target_call = NoTargetCall
    /\ stat_call = NoCall
    /\ power_call = NoCall
    /\ dd_call = NoCall
    /\ InitServices

Next == Startup \/ SliceCalendar

Spec == Init /\ [][Next]_vars

\* The target builder on the calendars a well-formed calendar file gives:
\* date lines only, strictly increasing.
SortedFiles ==
    {f \in Files : /\ \A i \in 1..Len(f) : f[i].kind = "date"
                   /\ \A i \in 1..(Len(f) - 1) : f[i].date < f[i + 1].date}

InitTarget ==
    /\ lines \in SortedFiles
    /\ phase = "boot"
    /\ calendar_dates = <<>>
    /\ calendar_index = <<>>
    /\ slice_call = NoSliceCall
    /\ target_call = NoTargetCall
    /\ stat_call = NoCall
    /\ power_call = NoCall
    /\ dd_call = NoCall
    /\ InitServices

NextTarget == Startup \/ BuildTargetMap

SpecTarget == InitTarget /\ [][NextTarget]_vars

\* --------------------------------------------------- claims on the calendar
StrictlyIncreasing(s) == \A i \in 1..(Len(s) - 1) : s[i] < s[i + 1]
Sliced == phase = "ready" /\ slice_call.status # "idle"
InRequestedRange(d) == slice_call.start <= d /\ d <= slice_call.end

\* C1: on a non-empty strictly increasing calendar, slicing from a calendar
\* date d to the same date d returns exactly the one-element list [d].
C1_SliceOfOneDate ==
    (/\ Sliced
     /\ StrictlyIncreasing(calendar_dates)
     /\ slice_call.start = slice_call.end
     /\ slice_call.start \in SeqRange(calendar_dates))
    => (slice_call.status = "ok" /\ slice_call.value = <<slice_call.start>>)

C1_Witness ==
    /\ Sliced
    /\ StrictlyIncreasing(calendar_dates)
    /\ Len(calendar_dates) >= 3
    /\ slice_call.start = slice_call.end
    /\ slice_call.start = calendar_dates[2]
    /\ slice_call.value = <<calendar_dates[2]>>

\* C2: slice_calendar called with start > end fails with the invalid-range
\* ValueError, whatever the calendar; it returns no list.
C2_StartAfterEndRaises ==
    (Sliced /\ slice_call.start > slice_call.end)
    => (slice_call.status = "ValueError" /\ slice_call.value = <<>>)

C2_Witness ==
    /\ Sliced
    /\ slice_call.start > slice_call.end
    /\ slice_call.start \in SeqRange(calendar_dates)
    /\ slice_call.end \in SeqRange(calendar_dates)
    /\ slice_call.status = "ValueError"

\* C3: for every calendar and every start <= end the call raises nothing,
\* and it returns the empty list whenever the resolved start index exceeds the
\* resolved end index; on a strictly increasing calendar that is the case of
\* every window holding no trading day (between two trading days, before the
\* first one, after the last one).
C3_EmptyWindowIsEmptyList ==
    (Sliced /\ slice_call.start <= slice_call.end)
    => /\ slice_call.status = "ok"
       /\ (resolved_start_idx(calendar_dates, calendar_index, slice_call.start)
             > resolved_end_idx(calendar_dates, calendar_index, slice_call.end))
          => slice_call.value = <<>>
       /\ (/\ StrictlyIncreasing(calendar_dates)
           /\ \A d \in SeqRange(calendar_dates) : ~InRequestedRange(d))
          => slice_call.value = <<>>

C3_Witness ==
    /\ Sliced
    /\ StrictlyIncreasing(calendar_dates)
    /\ slice_call.start <= slice_call.end
    /\ \E i \in 1..(Len(calendar_dates) - 1) :
         /\ calendar_dates[i] < slice_call.start
         /\ slice_call.end < calendar_dates[i + 1]
    /\ slice_call.status = "ok"
    /\ slice_call.value = <<>>

\* C4: on a strictly increasing calendar and for start <= end, the call
\* returns exactly the calendar dates d with start <= d <= end, in calendar
\* order (a start that is no trading day rounds up, an end that is none
\* rounds down).
C4_SliceIsDatesInRange ==
    (/\ Sliced
     /\ StrictlyIncreasing(calendar_dates)
     /\ slice_call.start <= slice_call.end)
    => /\ slice_call.status = "ok"
       /\ slice_call.value = SelectSeq(calendar_dates, InRequestedRange)

C4_Witness ==
    /\ Sliced
    /\ StrictlyIncreasing(calendar_dates)
    /\ Len(calendar_dates) >= 2
    /\ slice_call.start \notin SeqRange(calendar_dates)
    /\ slice_call.end \notin SeqRange(calendar_dates)
    /\ slice_call.status = "ok"
    /\ Len(slice_call.value) = 1
    /\ slice_call.start < slice_call.value[1]
    /\ slice_call.value[1] < slice_call.end
    /\ slice_call.value # calendar_dates

\* C5: every calendar the startup loads is non-empty, strictly increasing
\* and free of duplicates.
NoDuplicates(s) == \A i, j \in 1..Len(s) : i # j => s[i] # s[j]

C5_LoadedCalendarIsStrict ==
    phase = "ready"
    => /\ calendar_dates # <<>>
       /\ StrictlyIncreasing(calendar_dates)
       /\ NoDuplicates(calendar_dates)

\* --------------------------------------------- claims on the target builder
Built == phase = "ready" /\ target_call.status # "idle"
Returned == Built /\ target_call.status = "ok"
KnownTarget == target_call.target \in {"ret_cc", "close_open", "open_open"}

\* The range-sliced calendar of the call ([] when slice_calendar raises).
CallSlice ==
    slice_calendar(calendar_dates, calendar_index,
                   target_call.start, target_call.end).value

\* The price the provider gave for (instrument, date), NaN when it gave none.
RawPrice(field, instrument, d) ==
    IF /\ target_call.data.kind = "frame"
       /\ Lower(target_call.data.label) = instrument
       /\ d \in DOMAIN target_call.data.rows
    THEN IF field = "open" THEN target_call.data.rows[d].open
         ELSE target_call.data.rows[d].close
    ELSE NaN
Present(field, instrument, d) == RawPrice(field, instrument, d) # NaN

HasTarget(d, instrument) ==
    /\ d \in DOMAIN target_call.target_map
    /\ instrument \in DOMAIN target_call.target_map[d]

\* C6: the valid-date list a returning call gives is the range-sliced
\* calendar without its last horizon_days entries: the whole slice for
\* horizon_days = 0, empty for horizon_days >= the slice length.
C6_ValidDatesDropLastHorizon ==
    Returned =>
      LET valid == target_call.valid_dates
          h == target_call.horizon_days
      IN  /\ Len(valid) = Max2(Len(CallSlice) - h, 0)
          /\ \A i \in 1..Len(valid) : valid[i] = CallSlice[i]
          /\ h = 0 => valid = CallSlice
          /\ h >= Len(CallSlice) => valid = <<>>

C6_Witness ==
    /\ Returned
    /\ target_call.horizon_days = 1
    /\ Len(CallSlice) = 3
    /\ target_call.valid_dates = <<CallSlice[1], CallSlice[2]>>

\* C7: for the three target kinds, (D, instrument) has a target exactly when
\* D is a valid date, the date F that lies horizon_days positions after D in
\* the slice exists, the kind's numerator price is present at F and the
\* kind's denominator price is present and non-zero at D; the target is then
\* numerator / denominator - 1.  No other date is a key of the map.
NumeratorField == IF target_call.target = "open_open" THEN "open" ELSE "close"
DenominatorField == IF target_call.target = "ret_cc" THEN "close" ELSE "open"
PositionInSlice(d) == CHOOSE i \in 1..Len(CallSlice) : CallSlice[i] = d

Computable(d, instrument) ==
    /\ d \in SeqRange(target_call.valid_dates)
    /\ PositionInSlice(d) + target_call.horizon_days <= Len(CallSlice)
    /\ Present(NumeratorField, instrument,
               CallSlice[PositionInSlice(d) + target_call.horizon_days])
    /\ Present(DenominatorField, instrument, d)
    /\ RawPrice(DenominatorField, instrument, d) # 0

Expected(d, instrument) ==
    LET f == CallSlice[PositionInSlice(d) + target_call.horizon_days]
        numerator == RawPrice(NumeratorField, instrument, f)
        denominator == RawPrice(DenominatorField, instrument, d)
    IN  [num |-> numerator - denominator, den |-> denominator]

C7_TargetExactlyWhenComputable ==
    (Returned /\ KnownTarget) =>
      /\ DOMAIN target_call.target_map \subseteq SeqRange(target_call.valid_dates)
      /\ \A d \in DOMAIN target_call.target_map :
           /\ DOMAIN target_call.target_map[d] # {}
           /\ DOMAIN target_call.target_map[d] \subseteq SeqRange(target_call.instruments)
      /\ \A d \in Dates, instrument \in SeqRange(target_call.instruments) :
           /\ HasTarget(d, instrument) <=> Computable(d, instrument)
           /\ HasTarget(d, instrument)
                => target_call.target_map[d][instrument] = Expected(d, instrument)

C7_Witness ==
    /\ Returned
    /\ target_call.target = "close_open"
    /\ target_call.horizon_days = 1
    /\ Len(target_call.valid_dates) = 2
    /\ \E instrument \in SeqRange(target_call.instruments) :
         /\ HasTarget(target_call.valid_dates[1], instrument)
         /\ target_call.target_map[target_call.valid_dates[1]][instrument]
              = [num |-> 1, den |-> 1]
         /\ ~HasTarget(target_call.valid_dates[2], instrument)
         /\ RawPrice("open", instrument, target_call.valid_dates[2]) = 0
         /\ Present("close", instrument, CallSlice[3])

\* C8 as claimed: with horizon_days = 0 and kind ret_cc, every (instrument,
\* valid date) at which a close price is present has a target, equal to 0.
C8_ZeroHorizonEveryPresentClose ==
    (Returned /\ target_call.horizon_days = 0 /\ target_call.target = "ret_cc") =>
      \A d \in SeqRange(target_call.valid_dates),
         instrument \in SeqRange(target_call.instruments) :
           Present("close", instrument, d)
             => /\ HasTarget(d, instrument)
                /\ target_call.target_map[d][instrument].num = 0

\* C8 as amended: that holds where the close is present and non-zero; a zero
\* close (like a missing one) gives no target for the pair.
C8_ZeroHorizonNonZeroClose ==
    (Returned /\ target_call.horizon_days = 0 /\ target_call.target = "ret_cc") =>
      \A d \in SeqRange(target_call.valid_dates),
         instrument \in SeqRange(target_call.instruments) :
           /\ (Present("close", instrument, d) /\ RawPrice("close", instrument, d) # 0)
                => /\ HasTarget(d, instrument)
                   /\ target_call.target_map[d][instrument].num = 0
                   /\ target_call.target_map[d][instrument].den # 0
           /\ (~Present("close", instrument, d) \/ RawPrice("close", instrument, d) = 0)
                => ~HasTarget(d, instrument)

C8_Witness ==
    /\ Returned
    /\ target_call.horizon_days = 0
    /\ target_call.target = "ret_cc"
    /\ Len(target_call.valid_dates) = 3
    /\ \E instrument \in SeqRange(target_call.instruments) :
         /\ RawPrice("close", instrument, target_call.valid_dates[1]) = 2
         /\ HasTarget(target_call.valid_dates[1], instrument)
         /\ target_call.target_map[target_call.valid_dates[1]][instrument].num = 0
         /\ RawPrice("close", instrument, target_call.valid_dates[2]) = 0
         /\ ~HasTarget(target_call.valid_dates[2], instrument)
         /\ ~Present("close", instrument, target_call.valid_dates[3])
         /\ ~HasTarget(target_call.valid_dates[3], instrument)

\* C9: a call with a target kind other than ret_cc, close_open and open_open
\* ends in the configuration error (ValueError) whatever the universe, range,
\* horizon and prices are (qlib being importable, else the call ends in the
\* dependency error first).
C9_UnknownTargetRaises ==
    (Built /\ ~KnownTarget /\ target_call.qlib) => target_call.status = "ValueError"

\* C10 as claimed: when the provider yields no rows the call returns an
\* empty target map and a non-empty valid-date list.
C10_NoRowsNonEmptyValidDates ==
    (Built /\ target_call.data.kind = "empty")
    => /\ target_call.status = "ok"
       /\ target_call.target_map = <<>>
       /\ target_call.valid_dates # <<>>

\* C10 as amended: when the provider yields no rows the call returns without
\* error an empty target map and the valid-date list, which is non-empty
\* exactly when horizon_days is smaller than the length of the slice.
C10_NoRowsEmptyMapAndValidDates ==
    (Built /\ target_call.data.kind = "empty")
    => /\ target_call.status = "ok"
       /\ target_call.target_map = <<>>
       /\ target_call.valid_dates
            = SubSeq(CallSlice, 1, Max2(Len(CallSlice) - target_call.horizon_days, 0))
       /\ target_call.valid_dates # <<>>
            <=> target_call.horizon_days < Len(CallSlice)

C10_Witness ==
    /\ Built
    /\ target_call.data.kind = "empty"
    /\ target_call.status = "ok"
    /\ target_call.target_map = <<>>
    /\ target_call.horizon_days = 2
    /\ Len(CallSlice) = 3
    /\ Len(target_call.valid_dates) = 1

\* ------------------------------------------------------------------ numbers
\* A Python number is modelled as an exact fraction in lowest terms with a
\* positive denominator; None is the fraction with denominator 0.
Abs(n) == IF n < 0 THEN -n ELSE n

RECURSIVE GCD(_, _)
GCD(a, b) == IF b = 0 THEN a ELSE GCD(b, a % b)

Q(n, d) ==
    LET s == IF d < 0 THEN -1 ELSE 1
        g == GCD(Abs(n), Abs(d))
    IN  [num |-> (s * n) \div g, den |-> (s * d) \div g]

None == [num |-> 0, den |-> 0]
Num(n) == [num |-> n, den |-> 1]
Zero == Num(0)

LCM(a, b) == (a \div GCD(a, b)) * b
QAdd(a, b) ==
    LET l == LCM(a.den, b.den)
    IN  Q(a.num * (l \div a.den) + b.num * (l \div b.den), l)
QSub(a, b) == QAdd(a, [num |-> -b.num, den |-> b.den])
QMul(a, b) == Q(a.num * b.num, a.den * b.den)
QDiv(a, b) == Q(a.num * b.den, a.den * b.num)
QLess(a, b) == a.num * b.den < b.num * a.den
QLeq(a, b) == a.num * b.den <= b.num * a.den

RECURSIVE Pow2(_)
Pow2(k) == IF k = 0 THEN 1 ELSE 2 * Pow2(k - 1)

\* Python floats round every result to the nearest value with a fixed number
\* of significant binary digits, ties to the even one.  The model keeps that
\* arithmetic with MantissaBits significant digits in place of the 53 of a
\* double (exponents are unbounded: nothing here nears the limits of one).
MantissaBits == 7

round_half_even(a, d) ==
    LET m == a \div d
        r == a % d
    IN  IF 2 * r < d THEN m
        ELSE IF 2 * r > d THEN m + 1
        ELSE IF m % 2 = 0 THEN m ELSE m + 1

\* The nearest float to the positive fraction a / d: scale by powers of two
\* until the quotient has MantissaBits digits before the point, then round.
RECURSIVE fl_pos(_, _)
fl_pos(a, d) ==
    IF a \div Pow2(MantissaBits - 1) < d
    THEN QMul(IF d % 2 = 0 THEN fl_pos(a, d \div 2) ELSE fl_pos(2 * a, d),
              Q(1, 2))
    ELSE IF a \div Pow2(MantissaBits) >= d
    THEN QMul(IF a % 2 = 0 THEN fl_pos(a \div 2, d) ELSE fl_pos(a, 2 * d),
              Num(2))
    ELSE Num(round_half_even(a, d))

fl(q) ==
    IF q.num = 0 THEN Zero
    ELSE IF q.num > 0 THEN fl_pos(q.num, q.den)
    ELSE QSub(Zero, fl_pos(-q.num, q.den))

FAdd(a, b) == fl(QAdd(a, b))
FSub(a, b) == fl(QSub(a, b))
FMul(a, b) == fl(QMul(a, b))
FDiv(a, b) == fl(QDiv(a, b))

\* sum(values) of a list of floats: a left fold from the integer 0.  (The
\* running sum is bound as a value before the next step is taken.)
RECURSIVE FSumFrom(_, _, _)
FSumFrom(values, i, acc) ==
    IF i > Len(values) THEN acc
    ELSE CHOOSE total \in {FSumFrom(values, i + 1, next) :
                            next \in {FAdd(acc, values[i])}} : TRUE
FSum(values) == FSumFrom(values, 1, Zero)

\* math.sqrt of a float: the nearest float to the exact root.  The root of a
\* quotient scaled to 2 * MantissaBits digits is found by bisection.
RECURSIVE isqrt_between(_, _, _, _)
isqrt_between(a, d, lo, hi) ==
    IF lo + 1 >= hi THEN lo
    ELSE LET mid == (lo + hi) \div 2
         IN  IF mid * mid * d <= a THEN isqrt_between(a, d, mid, hi)
             ELSE isqrt_between(a, d, lo, mid)

round_sqrt(a, d) ==
    LET m == isqrt_between(a, d, Pow2(MantissaBits - 1), Pow2(MantissaBits))
    IN  IF (4 * m * m + 4 * m + 1) * d <= 4 * a THEN m + 1 ELSE m

RECURSIVE fsqrt_pos(_, _)
fsqrt_pos(a, d) ==
    IF a \div Pow2(2 * (MantissaBits - 1)) < d
    THEN QMul(IF d % 4 = 0 THEN fsqrt_pos(a, d \div 4) ELSE fsqrt_pos(4 * a, d),
              Q(1, 2))
    ELSE IF a \div Pow2(2 * MantissaBits) >= d
    THEN QMul(IF a % 4 = 0 THEN fsqrt_pos(a \div 4, d) ELSE fsqrt_pos(a, 4 * d),
              Num(2))
    ELSE fl_pos(round_sqrt(a, d), 1)

FSqrt(q) == IF q.num = 0 THEN Zero ELSE fsqrt_pos(q.num, q.den)

\* ------------------------------------------------- the correlation helpers
\* The loop of _pearson_corr: the three running sums of products of the
\* deviations from the two means.
RECURSIVE pearson_sums(_, _, _, _, _, _)
pearson_sums(values_x, values_y, mean_x, mean_y, i, acc) ==
    IF i > Len(values_x) THEN acc
    ELSE CHOOSE sums \in
             {pearson_sums(values_x, values_y, mean_x, mean_y, i + 1, next) :
              next \in
                  {[sum_xy |-> FAdd(acc.sum_xy, FMul(dx, dy)),
                    sum_xx |-> FAdd(acc.sum_xx, FMul(dx, dx)),
                    sum_yy |-> FAdd(acc.sum_yy, FMul(dy, dy))] :
                   dx \in {FSub(values_x[i], mean_x)},
                   dy \in {FSub(values_y[i], mean_y)}}} : TRUE

\* _pearson_corr(values_x, values_y).
_pearson_corr(values_x, values_y) ==
    LET n == Len(values_x)
    IN  IF n < 2 \/ n # Len(values_y) THEN None
        ELSE CHOOSE corr \in
                 {IF QLeq(s.sum_xx, Zero) \/ QLeq(s.sum_yy, Zero) THEN None
                  ELSE FDiv(s.sum_xy, FSqrt(FMul(s.sum_xx, s.sum_yy))) :
                  s \in {pearson_sums(values_x, values_y, mean_x, mean_y, 1,
                             [sum_xy |-> Zero, sum_xx |-> Zero, sum_yy |-> Zero]) :
                         mean_x \in {FDiv(FSum(values_x), Num(n))},
                         mean_y \in {FDiv(FSum(values_y), Num(n))}}} : TRUE

\* sorted(enumerate(values), key=...): the indices of a list in ascending
\* order of their keys; the sort is stable, equal keys keep their order.
\* place[i] is the sorted position of index i.
sorted_places(keys) ==
    [i \in 1..Len(keys) |->
        Cardinality({j \in 1..Len(keys) :
            \/ QLess(keys[j], keys[i])
            \/ (keys[j] = keys[i] /\ j < i)}) + 1]

sorted_indices(keys) ==
    CHOOSE ordered \in
        {[k \in 1..Len(ks) |-> CHOOSE i \in 1..Len(ks) : place[i] = k] :
         <<ks, place>> \in {<<ks, sorted_places(ks)>> : ks \in {keys}}} : TRUE

\* The inner while loop of _rank_values: the last position of the run of
\* equal values that starts at pos.
RECURSIVE rank_group_end(_, _, _, _)
rank_group_end(values, indexed, pos, end) ==
    IF end + 1 <= Len(values) /\ values[indexed[end + 1]] = values[indexed[pos]]
    THEN rank_group_end(values, indexed, pos, end + 1)
    ELSE end

\* Faulty variant: a tied group gets its lowest rank, not its mean rank.
RECURSIVE rank_groups_min_rank(_, _, _, _)
rank_groups_min_rank(values, indexed, pos, ranks) ==
    IF pos > Len(values) THEN ranks
    ELSE CHOOSE done \in
             {rank_groups_min_rank(values, indexed, end + 1,
                  [i \in 1..Len(values) |->
                      IF i \in {indexed[p] : p \in pos..end}
                      THEN Num(pos) ELSE ranks[i]]) :
              end \in {rank_group_end(values, indexed, pos, pos)}} : TRUE

\* The outer loop of _rank_values.  Positions are 1-based here, so the code's
\* avg_rank = (start + end) / 2.0 + 1.0 over 0-based positions reads as below.
RECURSIVE rank_groups(_, _, _, _)
rank_groups(values, indexed, pos, ranks) ==
    IF pos > Len(values) THEN ranks
    ELSE CHOOSE done \in
             {rank_groups(values, indexed, end + 1,
                  [i \in 1..Len(values) |->
                      IF i \in {indexed[p] : p \in pos..end}
                      THEN QAdd(Q((pos - 1) + (end - 1), 2), Num(1)) ELSE ranks[i]]) :
              end \in {rank_group_end(values, indexed, pos, pos)}} : TRUE

\* _rank_values(values).
_rank_values(values) ==
    rank_groups(values, sorted_indices(values), 1,
                [i \in 1..Len(values) |-> Zero])

\* _spearman_corr(values_x, values_y).
_spearman_corr(values_x, values_y) ==
    IF Len(values_x) < 2 THEN None
    ELSE _pearson_corr(_rank_values(values_x), _rank_values(values_y))

\* ------------------------------------------------------ the decile helper
\* A pair is <<feature, target>>.  The bucket of the pair at 0-based position
\* idx of the n sorted pairs.
\* Faulty variant: the position is rounded to the nearest bucket, not floored.
decile_of_rounded(idx, n) == Min2(9, (idx * 10 + n \div 2) \div n)

decile_of(idx, n) == Min2(9, (idx * 10) \div n)

\* The first loop of _decile_means: bucket b receives, in sorted order, the
\* targets of the pairs whose position maps to b (ordered[k] is the index of
\* the pair at 1-based sorted position k).
decile_bucket(pairs, ordered, b) ==
    LET at == {k \in 1..Len(pairs) : decile_of(k - 1, Len(pairs)) = b}
    IN  [j \in 1..Cardinality(at) |->
            pairs[ordered[CHOOSE k \in at :
                              Cardinality({k2 \in at : k2 < k}) = j - 1]][2]]

decile_buckets(pairs) ==
    CHOOSE buckets \in
        {[b \in 1..10 |-> decile_bucket(pairs, ordered, b - 1)] :
         ordered \in {sorted_indices([i \in 1..Len(pairs) |-> pairs[i][1]])}} :
        TRUE

\* The second loop of _decile_means: the mean of every bucket.
bucket_means(buckets) ==
    [b \in 1..10 |->
        IF buckets[b] = <<>> THEN None
        ELSE FDiv(FSum(buckets[b]), Num(Len(buckets[b])))]

\* Faulty variant: fewer than ten pairs are bucketed all the same.
_decile_means_of_any_size(pairs) ==
    CHOOSE means \in
        {bucket_means(buckets) : buckets \in {decile_buckets(pairs)}} : TRUE

\* _decile_means(pairs): None (here the empty list) under ten pairs, else the
\* ten bucket means, bucket b of the code at index b + 1.
_decile_means(pairs) ==
    IF Len(pairs) < 10 THEN <<>>
    ELSE CHOOSE means \in
             {bucket_means(buckets) : buckets \in {decile_buckets(pairs)}} :
             TRUE

\* ------------------------------------------------------ the rolling helper
NotNone(value) == value # None
Tail1(s) == SubSeq(s, 2, Len(s))

SquaredDeviations(valid, mean) ==
    [i \in 1..Len(valid) |-> FMul(FSub(valid[i], mean), FSub(valid[i], mean))]

\* Faulty variant: the deviation of the whole window (divisor n), which is
\* zero, not None, for a single value.
window_stats_population(window_values) ==
    LET valid == SelectSeq(window_values, NotNone)
        n == Len(valid)
        mean == IF n > 0 THEN FDiv(FSum(valid), Num(n)) ELSE None
        var == FDiv(FSum(SquaredDeviations(valid, mean)), Num(n))
        std == IF n > 0 THEN FSqrt(var) ELSE None
        has_ratio == n > 0 /\ std # Zero
    IN  [mean |-> mean,
         std |-> std,
         ir |-> IF has_ratio THEN FDiv(mean, std) ELSE None,
         t_stat |-> IF has_ratio
                    THEN FDiv(mean, FDiv(std, FSqrt(Num(n)))) ELSE None]

\* The statistics _rolling_metrics computes from one window.
window_stats(window_values) ==
    LET valid == SelectSeq(window_values, NotNone)
        n == Len(valid)
        mean == IF n > 0 THEN FDiv(FSum(valid), Num(n)) ELSE None
        var == FDiv(FSum(SquaredDeviations(valid, mean)), Num(n - 1))
        std == IF n > 1 THEN FSqrt(var) ELSE None
        has_ratio == n > 1 /\ std # Zero
    IN  [mean |-> mean,
         std |-> std,
         ir |-> IF has_ratio THEN FDiv(mean, std) ELSE None,
         t_stat |-> IF has_ratio
                    THEN FDiv(mean, FDiv(std, FSqrt(Num(n)))) ELSE None]

\* Faulty variant: the oldest value is never dropped.
push_window_unbounded(window_values, value, window) ==
    Append(window_values, value)

\* pop(0) after append: the window keeps the last `window` values.
push_window(window_values, value, window) ==
    IF Len(window_values) + 1 > window
    THEN Tail1(Append(window_values, value))
    ELSE Append(window_values, value)

\* The loop of _rolling_metrics over the input values.  `buffers` keeps, for
\* every position, the window_values the metrics of that position were
\* computed from.
RECURSIVE rolling_loop(_, _, _, _, _)
rolling_loop(dates, values, window, idx, acc) ==
    IF idx > Len(values) THEN acc
    ELSE CHOOSE out \in
             {rolling_loop(dates, values, window, idx + 1,
                  [window_values |-> window_values,
                   buffers |-> Append(acc.buffers, window_values),
                   ic_mean |-> Append(acc.ic_mean,
                                      [date |-> dates[idx], value |-> s.mean]),
                   ic_std |-> Append(acc.ic_std,
                                     [date |-> dates[idx], value |-> s.std]),
                   ic_ir |-> Append(acc.ic_ir,
                                    [date |-> dates[idx], value |-> s.ir]),
                   t_stat |-> Append(acc.t_stat,
                                     [date |-> dates[idx], value |-> s.t_stat])]) :
              <<window_values, s>> \in
                  {<<w, window_stats(w)>> :
                   w \in {push_window(acc.window_values, values[idx], window)}}} :
             TRUE

rolling_run(dates, values, window) ==
    rolling_loop(dates, values, Max2(window, 1), 1,
        [window_values |-> <<>>, buffers |-> <<>>, ic_mean |-> <<>>,
         ic_std |-> <<>>, ic_ir |-> <<>>, t_stat |-> <<>>])

\* _rolling_metrics(dates, values, window).
_rolling_metrics(dates, values, window) ==
    LET out == rolling_run(dates, values, window)
    IN  [ic_mean |-> out.ic_mean, ic_std |-> out.ic_std,
         ic_ir |-> out.ic_ir, t_stat |-> out.t_stat]

\* ------------------------------------------- calls of the statistics helpers
MaxRankLen == 6
MaxCorrLen == 3
MaxPairs == 11
MaxRollLen == 4

RankInputs == {Num(v) : v \in 0..3}
CorrInputs == {Num(0), Num(1), Num(86)}
RollInputs == {None, Num(0), Num(1), Num(86)}
Windows == 0..3

\* Samples for the decile helper: n pairs whose features run through the
\* residues (i * step + shift) % modulus, so that they come unsorted, with
\* ties when the modulus is small.  With width 0 the target of a pair is its
\* own position in the input, which tells the pairs apart; with another width
\* the target is a non-decreasing step function of the feature.
SampleOf(n, step, shift, modulus, width) ==
    [i \in 1..n |->
        LET feature == (i * step + shift) % modulus
        IN  <<Num(feature),
              IF width = 0 THEN Num(i) ELSE Num(feature \div width)>>]

ShortSamples ==
    {SampleOf(n, step, shift, modulus, 0) :
     n \in 0..MaxPairs, step \in {1, 3}, shift \in {0, 1}, modulus \in {2, 3, 5, 13}}

HundredSamples ==
    {SampleOf(100, step, shift, 100, width) :
     step \in {1, 3, 99}, shift \in {0, 7}, width \in {1, 7, 10, 50, 100}}

DecileInputs == ShortSamples \cup HundredSamples

RankValues ==
    /\ stat_call.op = "idle"
    /\ \E values \in SeqsUpTo(RankInputs, MaxRankLen) :
         stat_call' = [op |-> "_rank_values", values |-> values,
                       result |-> _rank_values(values)]
    /\ UNCHANGED <<calVars, slice_call, target_call, power_call, dd_call,
                 serviceVars, jobVars>>

PearsonCorr ==
    /\ stat_call.op = "idle"
    /\ \E values_x \in SeqsUpTo(CorrInputs, MaxCorrLen),
          values_y \in SeqsUpTo(CorrInputs, MaxCorrLen) :
         stat_call' = [op |-> "_pearson_corr", values_x |-> values_x,
                       values_y |-> values_y,
                       result |-> _pearson_corr(values_x, values_y)]
    /\ UNCHANGED <<calVars, slice_call, target_call, power_call, dd_call,
                 serviceVars, jobVars>>

SpearmanCorr ==
    /\ stat_call.op = "idle"
    /\ \E values_x \in SeqsUpTo(CorrInputs, MaxCorrLen),
          values_y \in SeqsUpTo(CorrInputs, MaxCorrLen) :
         stat_call' = [op |-> "_spearman_corr", values_x |-> values_x,
                       values_y |-> values_y,
                       result |-> _spearman_corr(values_x, values_y)]
    /\ UNCHANGED <<calVars, slice_call, target_call, power_call, dd_call,
                 serviceVars, jobVars>>

DecileMeans ==
    /\ stat_call.op = "idle"
    /\ \E pairs \in DecileInputs :
         stat_call' = [op |-> "_decile_means", pairs |-> pairs,
                       result |-> _decile_means(pairs)]
    /\ UNCHANGED <<calVars, slice_call, target_call, power_call, dd_call,
                 serviceVars, jobVars>>

RollingMetrics ==
    /\ stat_call.op = "idle"
    /\ \E values \in SeqsUpTo(RollInputs, MaxRollLen), window \in Windows :
         stat_call' = [op |-> "_rolling_metrics", values |-> values,
                       window |-> window,
                       buffers |-> rolling_run([i \in 1..Len(values) |-> i],
                                               values, window).buffers,
                       result |-> _rolling_metrics([i \in 1..Len(values) |-> i],
                                                   values, window)]
    /\ UNCHANGED <<calVars, slice_call, target_call, power_call, dd_call,
                 serviceVars, jobVars>>

InitStats ==
    /\ lines = <<>>
    /\ phase = "boot"
    /\ calendar_dates = <<>>
    /\ calendar_index = <<>>
    /\ slice_call = NoSliceCall
    /\ target_call = NoTargetCall
    /\ stat_call = NoCall
    /\ power_call = NoCall
    /\ dd_call = NoCall
    /\ InitServices

NextCorr == RankValues \/ PearsonCorr \/ SpearmanCorr

SpecCorr == InitStats /\ [][NextCorr]_vars

SpecDecile == InitStats /\ [][DecileMeans]_vars

SpecRolling == InitStats /\ [][RollingMetrics]_vars

\* ------------------------------------------ claims on the statistics helpers
Called(op) == stat_call.op = op

\* The 1-based sorted positions the values equal to values[i] occupy are
\* CountBelow + 1 .. CountBelow + CountEqual; their mean is the rank claimed.
CountBelow(values, i) ==
    Cardinality({j \in 1..Len(values) : QLess(values[j], values[i])})
CountEqual(values, i) ==
    Cardinality({j \in 1..Len(values) : values[j] = values[i]})
MeanRank(values, i) ==
    Q(2 * CountBelow(values, i) + CountEqual(values, i) + 1, 2)
MeanRanks(values) == [i \in 1..Len(values) |-> MeanRank(values, i)]

\* C12: _rank_values gives every value the mean of the 1-based sorted
\* positions its group of equal values occupies (an untied value its own
\* position), and _spearman_corr returns _pearson_corr of those ranks.
C12_MeanRanksOfTies ==
    /\ Called("_rank_values")
         => stat_call.result = MeanRanks(stat_call.values)
    /\ Called("_spearman_corr")
         => stat_call.result = _pearson_corr(MeanRanks(stat_call.values_x),
                                             MeanRanks(stat_call.values_y))

\* Three equal values on sorted positions 4, 5 and 6 all get rank 5, and the
\* three values below them get 1, 2 and 3.
C12_Witness ==
    /\ Called("_rank_values")
    /\ Len(stat_call.values) = 6
    /\ \E i, j, k \in 1..6 :
         /\ i < j /\ j < k
         /\ CountBelow(stat_call.values, i) = 3
         /\ stat_call.values[i] = stat_call.values[j]
         /\ stat_call.values[j] = stat_call.values[k]
         /\ stat_call.result[i] = Num(5)
         /\ stat_call.result[j] = Num(5)
         /\ stat_call.result[k] = Num(5)
    /\ {stat_call.result[i] : i \in 1..6} = {Num(1), Num(2), Num(3), Num(5)}

Flat(values) == \A i, j \in 1..Len(values) : values[i] = values[j]

\* C14: _pearson_corr and _spearman_corr return None, never a number, when
\* there are fewer than two pairs or when either series has zero variance
\* (all its values equal).
C14_FlatSeriesGivesNone ==
    ((Called("_pearson_corr") \/ Called("_spearman_corr"))
     /\ Len(stat_call.values_x) = Len(stat_call.values_y)
     /\ (Len(stat_call.values_x) < 2 \/ Flat(stat_call.values_x)
                                     \/ Flat(stat_call.values_y)))
    => stat_call.result = None

\* The stable sorted positions (0-based) of the pairs of a sample, the bucket
\* the claimed rule gives a position, and the members it gives a bucket.
SortedPositions(pairs) ==
    [i \in 1..Len(pairs) |->
        Cardinality({j \in 1..Len(pairs) :
            \/ QLess(pairs[j][1], pairs[i][1])
            \/ (pairs[j][1] = pairs[i][1] /\ j < i)})]
ClaimedBucket(position, n) == Min2(9, (position * 10) \div n)
ClaimedMembers(positions, b) ==
    {i \in DOMAIN positions : ClaimedBucket(positions[i], Len(positions)) = b}
\* The targets of a set of pairs, in sorted order of the pairs.
TargetsOf(pairs, positions, members) ==
    [k \in 1..Cardinality(members) |->
        pairs[CHOOSE i \in members :
                  Cardinality({j \in members : positions[j] < positions[i]})
                      = k - 1][2]]
ClaimedMean(pairs, positions, members) ==
    FDiv(FSum(TargetsOf(pairs, positions, members)), Num(Cardinality(members)))

\* C15: _decile_means returns no buckets for fewer than 10 pairs; for n >= 10
\* the pair at 0-based sorted position i (ascending by feature) lies in bucket
\* min(9, floor(i * 10 / n)), every bucket has a member and every one of the
\* ten means is a number: the mean of the targets of the bucket's members.
C15_DecileBuckets ==
    Called("_decile_means") =>
        IF Len(stat_call.pairs) < 10 THEN stat_call.result = <<>>
        ELSE /\ Len(stat_call.result) = 10
             /\ \A positions \in {SortedPositions(stat_call.pairs)} :
                  \A b \in 0..9 :
                    \A members \in {ClaimedMembers(positions, b)} :
                      /\ members # {}
                      /\ stat_call.result[b + 1] # None
                      /\ stat_call.result[b + 1] =
                             ClaimedMean(stat_call.pairs, positions, members)

\* Eleven unsorted pairs: bucket 0 holds two pairs, the others one each.
C15_Witness ==
    /\ Called("_decile_means")
    /\ Len(stat_call.pairs) = 11
    /\ QLess(stat_call.pairs[2][1], stat_call.pairs[1][1])
    /\ Cardinality(ClaimedMembers(SortedPositions(stat_call.pairs), 0)) = 2
    /\ Len(stat_call.result) = 10
    /\ \A b \in 1..10 : stat_call.result[b] # None

Monotone(pairs) ==
    \A i, j \in 1..Len(pairs) :
        QLeq(pairs[i][1], pairs[j][1]) => QLeq(pairs[i][2], pairs[j][2])

\* C16: for 100 pairs every one of the ten buckets gets exactly 10 targets,
\* and when the target is monotonically increasing in the feature the mean of
\* bucket 9 is at least the mean of bucket 0.
C16_HundredPairs ==
    (Called("_decile_means") /\ Len(stat_call.pairs) = 100) =>
        /\ \A buckets \in {decile_buckets(stat_call.pairs)} :
             \A b \in 1..10 : Len(buckets[b]) = 10
        /\ Len(stat_call.result) = 10
        /\ Monotone(stat_call.pairs)
             => QLeq(stat_call.result[1], stat_call.result[10])

C16_Witness ==
    /\ Called("_decile_means")
    /\ Len(stat_call.pairs) = 100
    /\ Monotone(stat_call.pairs)
    /\ QLess(stat_call.pairs[2][1], stat_call.pairs[1][1])
    /\ QLess(stat_call.result[1], stat_call.result[10])

\* C18: with window = 1 _rolling_metrics returns, at every position, a mean
\* equal to the input value (None where the input is None) and None for the
\* standard deviation, the information ratio and the t-statistic.
C18_WindowOfOne ==
    (Called("_rolling_metrics") /\ stat_call.window = 1) =>
        LET out == stat_call.result
            n == Len(stat_call.values)
        IN  /\ Len(out.ic_mean) = n /\ Len(out.ic_std) = n
            /\ Len(out.ic_ir) = n /\ Len(out.t_stat) = n
            /\ \A i \in 1..n :
                 /\ out.ic_mean[i] = [date |-> i, value |-> stat_call.values[i]]
                 /\ out.ic_std[i] = [date |-> i, value |-> None]
                 /\ out.ic_ir[i] = [date |-> i, value |-> None]
                 /\ out.t_stat[i] = [date |-> i, value |-> None]

C18_Witness ==
    /\ Called("_rolling_metrics")
    /\ stat_call.window = 1
    /\ Len(stat_call.values) = 3
    /\ stat_call.values[1] = Num(86)
    /\ stat_call.values[2] = None
    /\ stat_call.values[3] = Num(1)
    /\ stat_call.result.ic_mean[3].value = Num(1)
    /\ stat_call.result.ic_std[3].value = None

\* ---------------------------------------------------- strategy analytics
\* _compute_drawdowns of src/backend/app/api/v1/routes.py.  Positions are
\* 1-based here and 0 stands for None (no open episode, no recovery date).
NoIdx == 0
NoDate == 0

DrawdownEvent(start, trough, recovery, depth, length, days_to_trough) ==
    [start |-> start, trough |-> trough, recovery |-> recovery, depth |-> depth,
     length |-> length, days_to_trough |-> days_to_trough]

\* One pass of the for loop, on value v at position i.
drawdown_step(dates, v, i, st) ==
    LET exceeds == QLess(st.peak, v)
        closing == exceeds /\ st.current_start_idx # NoIdx
        events == IF closing
                  THEN Append(st.events,
                           DrawdownEvent(dates[st.current_start_idx],
                                         dates[st.trough_idx], dates[i],
                                         st.trough_dd,
                                         i - st.current_start_idx,
                                         st.trough_idx - st.current_start_idx))
                  ELSE st.events
        start == IF closing THEN NoIdx ELSE st.current_start_idx
        trough == IF closing THEN NoIdx ELSE st.trough_idx
        trough_dd == IF closing THEN Zero ELSE st.trough_dd
        peak == IF exceeds THEN v ELSE st.peak
        dd == FSub(FDiv(v, peak), Num(1))
        opens == QLess(dd, Zero) /\ start = NoIdx
        deepens == QLess(dd, Zero) /\ start # NoIdx /\ QLess(dd, trough_dd)
    IN  [peak |-> peak,
         events |-> events,
         current_start_idx |-> IF opens THEN i ELSE start,
         trough_idx |-> IF opens \/ deepens THEN i ELSE trough,
         trough_dd |-> IF opens \/ deepens THEN dd ELSE trough_dd,
         drawdowns |-> Append(st.drawdowns, dd)]

RECURSIVE drawdown_loop(_, _, _, _)
drawdown_loop(dates, equity, i, st) ==
    IF i > Len(equity) THEN st
    ELSE CHOOSE out \in {drawdown_loop(dates, equity, i + 1, next) :
                         next \in {drawdown_step(dates, equity[i], i, st)}} :
             TRUE

\* Faulty variant: the episode still open after the loop is dropped.
closed_events_dropping_open(dates, equity, st) == st.events

\* Faulty variant: the open episode's length counts its days, not the
\* distance to the last index.
closed_events_counting_days(dates, equity, st) ==
    IF st.current_start_idx # NoIdx /\ st.trough_idx # NoIdx
    THEN Append(st.events,
             DrawdownEvent(dates[st.current_start_idx], dates[st.trough_idx],
                           NoDate, st.trough_dd,
                           Len(equity) - st.current_start_idx + 1,
                           st.trough_idx - st.current_start_idx))
    ELSE st.events

\* The episode still open after the loop is emitted without a recovery date.
closed_events(dates, equity, st) ==
    IF st.current_start_idx # NoIdx /\ st.trough_idx # NoIdx
    THEN Append(st.events,
             DrawdownEvent(dates[st.current_start_idx], dates[st.trough_idx],
                           NoDate, st.trough_dd,
                           Len(equity) - st.current_start_idx,
                           st.trough_idx - st.current_start_idx))
    ELSE st.events

\* Faulty variant: the events are returned in the order they were found.
sort_by_depth_skipped(events) == events

\* events.sort(key=lambda e: e.depth): stable, ascending by depth.
sort_by_depth(events) ==
    CHOOSE sorted \in
        {[k \in 1..Len(events) |-> events[ordered[k]]] :
         ordered \in {sorted_indices([k \in 1..Len(events) |->
                                         events[k].depth])}} : TRUE

\* _compute_drawdowns(dates, equity).
_compute_drawdowns(dates, equity) ==
    CHOOSE out \in
        {[drawdowns |-> st.drawdowns,
          events |-> sort_by_depth(closed_events(dates, equity, st))] :
         st \in {drawdown_loop(dates, equity, 1,
                     [peak |-> IF equity # <<>> THEN equity[1] ELSE Num(1),
                      events |-> <<>>, current_start_idx |-> NoIdx,
                      trough_idx |-> NoIdx, trough_dd |-> Zero,
                      drawdowns |-> <<>>])}} : TRUE

\* events[:top] for a count top >= 0.
first_events(events, top) == SubSeq(events, 1, Min2(top, Len(events)))

MaxCurveLen == 5
\* Equity values: the floats nearest to 0.9, 0.95, 1.0, 1.1 and 1.2.
EquityValues == {fl(Q(k, 20)) : k \in {18, 19, 20, 22, 24}}
Tops == {0, 1, 5}

\* strategy_analytics(expr_hash, window, top) on the equity curve found for
\* the strategy: the drawdown part of the response (the rolling and monthly
\* series are computed from the same curve and touch nothing else).
StrategyAnalytics ==
    /\ dd_call.op = "idle"
    /\ \E equity \in SeqsUpTo(EquityValues, MaxCurveLen) :
         \E got \in {IF equity = <<>> THEN [drawdowns |-> <<>>, events |-> <<>>]
                     ELSE _compute_drawdowns([i \in 1..Len(equity) |-> i],
                                             equity)} :
           \E top \in Tops :
             dd_call' = [op |-> "strategy_analytics", equity |-> equity,
                         top |-> top, drawdowns |-> got.drawdowns,
                         events |-> got.events,
                         drawdown_events |->
                             IF equity = <<>> THEN <<>>
                             ELSE first_events(got.events, top)]
    /\ UNCHANGED <<calVars, slice_call, target_call, stat_call, power_call,
                 serviceVars, jobVars>>

SpecDrawdown == InitStats /\ [][StrategyAnalytics]_vars

\* ------------------------------------------------ claims on the drawdowns
Analysed == dd_call.op = "strategy_analytics"
Float(n, d) == fl(Q(n, d))
SortedByDepth(events) ==
    \A k \in 1..(Len(events) - 1) : QLeq(events[k].depth, events[k + 1].depth)

\* C19: on the curve [1.0, 1.1, 0.9, 0.95, 1.2] _compute_drawdowns yields
\* exactly one event; it is completed, its start is the date of the 1.1 peak,
\* its trough the date of 0.9 and its recovery the date of 1.2.
C19_StartAtThePeak ==
    (Analysed /\ dd_call.equity = <<Float(1, 1), Float(11, 10), Float(9, 10),
                                    Float(19, 20), Float(12, 10)>>)
    => /\ Len(dd_call.events) = 1
       /\ dd_call.events[1].recovery = 5
       /\ dd_call.events[1].start = 2
       /\ dd_call.events[1].trough = 3

\* C20: for every curve of positive values the events _compute_drawdowns
\* returns are in ascending order of depth, every depth is <= 0, and
\* strategy_analytics returns the first `top` of them.
C20_RankedByDepth ==
    Analysed =>
        /\ SortedByDepth(dd_call.events)
        /\ \A k \in 1..Len(dd_call.events) : QLeq(dd_call.events[k].depth, Zero)
        /\ Len(dd_call.drawdown_events) = Min2(dd_call.top, Len(dd_call.events))
        /\ \A k \in 1..Len(dd_call.drawdown_events) :
             dd_call.drawdown_events[k] = dd_call.events[k]

\* Two episodes, the later one deeper: it comes first, and top = 1 keeps it.
C20_Witness ==
    /\ Analysed
    /\ Len(dd_call.events) = 2
    /\ dd_call.events[1].start > dd_call.events[2].start
    /\ QLess(dd_call.events[1].depth, dd_call.events[2].depth)
    /\ dd_call.top = 1
    /\ dd_call.drawdown_events = <<dd_call.events[1]>>

\* ------------------------------------------------ the feature-power endpoints
\* feature_power, feature_power_summary and feature_power_detail from the
\* point where _build_target_map has returned (target_map, valid_dates) and
\* the feature store has returned the rows of one feature, ordered by date.
\* A row is [instrument, date, value]; a NULL value is None and a NaN value
\* is NotANumber.
NotANumber == [num |-> 1, den |-> 0]
\* Faulty variant: only NULL counts as missing.
is_missing_value_null_only(value) == value = None

\* _is_missing(_normalize_value(value)) on a feature value.
is_missing_value(value) == value = None \/ value = NotANumber

\* The first loop of the three endpoints: date_pairs.  A row is skipped when
\* its date has no targets, its lower-cased instrument has no target, or its
\* value is missing; otherwise its pair is appended to its date's sample.
row_is_skipped(row, target_map) ==
    \/ row.date \notin DOMAIN target_map
    \/ Lower(row.instrument) \notin DOMAIN target_map[row.date]
    \/ is_missing_value(row.value)

append_pair(date_pairs, row, target_map) ==
    LET pair == <<row.value, target_map[row.date][Lower(row.instrument)]>>
    IN  [d \in DOMAIN date_pairs \cup {row.date} |->
            IF d = row.date
            THEN IF d \in DOMAIN date_pairs THEN Append(date_pairs[d], pair)
                 ELSE <<pair>>
            ELSE date_pairs[d]]

RECURSIVE date_pairs_loop(_, _, _, _)
date_pairs_loop(rows, target_map, i, date_pairs) ==
    IF i > Len(rows) THEN date_pairs
    ELSE IF row_is_skipped(rows[i], target_map)
    THEN date_pairs_loop(rows, target_map, i + 1, date_pairs)
    ELSE CHOOSE out \in
             {date_pairs_loop(rows, target_map, i + 1, next) :
              next \in {append_pair(date_pairs, rows[i], target_map)}} : TRUE

\* date_pairs.get(day): the empty list stands for an absent day (the code
\* treats both alike, `if not pairs`).
pairs_of(date_pairs, day) ==
    IF day \in DOMAIN date_pairs THEN date_pairs[day] ELSE <<>>

\* The daily information coefficient of a sample.
daily_ic(pairs, method) ==
    LET values_x == [i \in 1..Len(pairs) |-> pairs[i][1]]
        values_y == [i \in 1..Len(pairs) |-> pairs[i][2]]
    IN  IF method = "spearman" THEN _spearman_corr(values_x, values_y)
        ELSE _pearson_corr(values_x, values_y)

\* decile_sum / decile_count after a day's decile means are added.
add_deciles(acc, deciles) ==
    [decile_sum |->
        [b \in 1..10 |->
            IF deciles # <<>> /\ deciles[b] # None
            THEN FAdd(acc.decile_sum[b], deciles[b]) ELSE acc.decile_sum[b]],
     decile_count |->
        [b \in 1..10 |->
            IF deciles # <<>> /\ deciles[b] # None
            THEN acc.decile_count[b] + 1 ELSE acc.decile_count[b]]]

\* One pass of the aggregation loop of feature_power and
\* feature_power_summary, on one valid date.
\* Faulty variant: a day without pairs is counted as an IC of zero.
aggregate_day_zero_filled(acc, day, pairs, method) ==
    IF pairs = <<>>
    THEN [acc EXCEPT !.ic_values = Append(@, Zero),
                     !.ic_ts = Append(@, [date |-> day, ic |-> Zero])]
    ELSE LET ic == daily_ic(pairs, method)
             added == add_deciles(acc, _decile_means(pairs))
         IN  [ic_values |-> IF ic # None THEN Append(acc.ic_values, ic)
                            ELSE acc.ic_values,
              ic_ts |-> IF ic # None
                        THEN Append(acc.ic_ts, [date |-> day, ic |-> ic])
                        ELSE acc.ic_ts,
              decile_sum |-> added.decile_sum,
              decile_count |-> added.decile_count,
              n_obs |-> acc.n_obs + Len(pairs)]

aggregate_day(acc, day, pairs, method) ==
    IF pairs = <<>> THEN acc
    ELSE LET ic == daily_ic(pairs, method)
             added == add_deciles(acc, _decile_means(pairs))
         IN  [ic_values |-> IF ic # None THEN Append(acc.ic_values, ic)
                            ELSE acc.ic_values,
              ic_ts |-> IF ic # None
                        THEN Append(acc.ic_ts, [date |-> day, ic |-> ic])
                        ELSE acc.ic_ts,
              decile_sum |-> added.decile_sum,
              decile_count |-> added.decile_count,
              n_obs |-> acc.n_obs + Len(pairs)]

RECURSIVE aggregate_loop(_, _, _, _, _)
aggregate_loop(valid_dates, date_pairs, method, i, acc) ==
    IF i > Len(valid_dates) THEN acc
    ELSE CHOOSE out \in
             {aggregate_loop(valid_dates, date_pairs, method, i + 1, next) :
              next \in {aggregate_day(acc, valid_dates[i],
                                      pairs_of(date_pairs, valid_dates[i]),
                                      method)}} : TRUE

NoAggregate ==
    [ic_values |-> <<>>, ic_ts |-> <<>>, decile_sum |-> [b \in 1..10 |-> Zero],
     decile_count |-> [b \in 1..10 |-> 0], n_obs |-> 0]

\* ic_mean, ic_std, ic_ir and t_stat of the list of daily ICs.
ic_statistics(ic_values) ==
    LET n == Len(ic_values)
        ic_mean == IF n > 0 THEN FDiv(FSum(ic_values), Num(n)) ELSE None
        var == FDiv(FSum(SquaredDeviations(ic_values, ic_mean)), Num(n - 1))
        ic_std == IF n > 1 THEN FSqrt(var) ELSE None
        has_ratio == n > 1 /\ ic_std # Zero
    IN  [ic_mean |-> ic_mean,
         ic_std |-> ic_std,
         ic_ir |-> IF has_ratio THEN FDiv(ic_mean, ic_std) ELSE None,
         t_stat |-> IF has_ratio
                    THEN FDiv(ic_mean, FDiv(ic_std, FSqrt(Num(n)))) ELSE None]

\* The decile curve of feature_power and the spread taken from it.
\* Faulty variant: an empty bucket is averaged as zero.
decile_curve_of_zero_filled(acc) ==
    [b \in 1..10 |->
        IF acc.decile_count[b] # 0
        THEN FDiv(acc.decile_sum[b], Num(acc.decile_count[b])) ELSE Zero]

decile_curve_of(acc) ==
    [b \in 1..10 |->
        IF acc.decile_count[b] # 0
        THEN FDiv(acc.decile_sum[b], Num(acc.decile_count[b])) ELSE None]

spread_of_curve(decile_curve) ==
    IF decile_curve[1] # None /\ decile_curve[10] # None
    THEN FSub(decile_curve[10], decile_curve[1]) ELSE None

\* The spread of feature_power_summary, from the sums and counts.
spread_of_counts(acc) ==
    IF acc.decile_count[1] # 0 /\ acc.decile_count[10] # 0
    THEN FSub(FDiv(acc.decile_sum[10], Num(acc.decile_count[10])),
              FDiv(acc.decile_sum[1], Num(acc.decile_count[1])))
    ELSE None

\* The result entry of feature_power for one feature, with the locals the
\* claims speak of.
feature_power(rows, target_map, valid_dates, method) ==
    CHOOSE result \in
        {[date_pairs |-> date_pairs,
          ic_values |-> acc.ic_values,
          decile_sum |-> acc.decile_sum,
          decile_count |-> acc.decile_count,
          n_obs |-> acc.n_obs,
          ic_mean |-> stats.ic_mean,
          ic_std |-> stats.ic_std,
          ic_ir |-> stats.ic_ir,
          t_stat |-> stats.t_stat,
          decile_spread |-> spread_of_curve(curve),
          decile_curve |-> curve,
          ic_ts |-> acc.ic_ts] :
         <<date_pairs, acc, stats, curve>> \in
             {<<dp, a, ic_statistics(a.ic_values), decile_curve_of(a)>> :
              <<dp, a>> \in
                  {<<p, aggregate_loop(valid_dates, p, method, 1, NoAggregate)>> :
                   p \in {date_pairs_loop(rows, target_map, 1, <<>>)}}}} : TRUE

\* The result entry of feature_power_summary for one feature.
feature_power_summary(rows, target_map, valid_dates, method) ==
    CHOOSE result \in
        {[date_pairs |-> date_pairs,
          ic_values |-> acc.ic_values,
          decile_sum |-> acc.decile_sum,
          decile_count |-> acc.decile_count,
          n_obs |-> acc.n_obs,
          ic_mean |-> stats.ic_mean,
          ic_std |-> stats.ic_std,
          ic_ir |-> stats.ic_ir,
          t_stat |-> stats.t_stat,
          decile_spread |-> spread_of_counts(acc)] :
         <<date_pairs, acc, stats>> \in
             {<<dp, a, ic_statistics(a.ic_values)>> :
              <<dp, a>> \in
                  {<<p, aggregate_loop(valid_dates, p, method, 1, NoAggregate)>> :
                   p \in {date_pairs_loop(rows, target_map, 1, <<>>)}}}} : TRUE

\* One pass of the daily loop of feature_power_detail.
detail_day(acc, day, pairs, method) ==
    IF pairs = <<>>
    THEN [daily_ic |-> Append(acc.daily_ic, [date |-> day, value |-> None]),
          daily_decile_spread |->
              Append(acc.daily_decile_spread, [date |-> day, value |-> None]),
          daily_n_obs |-> Append(acc.daily_n_obs, [date |-> day, value |-> 0]),
          ic_values |-> Append(acc.ic_values, None)]
    ELSE LET ic == daily_ic(pairs, method)
             deciles == _decile_means(pairs)
             spread == IF deciles # <<>> /\ deciles[1] # None /\ deciles[10] # None
                       THEN FSub(deciles[10], deciles[1]) ELSE None
         IN  [daily_ic |-> Append(acc.daily_ic, [date |-> day, value |-> ic]),
              daily_decile_spread |->
                  Append(acc.daily_decile_spread, [date |-> day, value |-> spread]),
              daily_n_obs |->
                  Append(acc.daily_n_obs, [date |-> day, value |-> Len(pairs)]),
              ic_values |-> Append(acc.ic_values, ic)]

RECURSIVE detail_loop(_, _, _, _, _)
detail_loop(valid_dates, date_pairs, method, i, acc) ==
    IF i > Len(valid_dates) THEN acc
    ELSE CHOOSE out \in
             {detail_loop(valid_dates, date_pairs, method, i + 1, next) :
              next \in {detail_day(acc, valid_dates[i],
                                   pairs_of(date_pairs, valid_dates[i]),
                                   method)}} : TRUE

\* The response of feature_power_detail.
feature_power_detail(rows, target_map, valid_dates, method, rolling_window) ==
    CHOOSE result \in
        {[date_pairs |-> date_pairs,
          daily_ic |-> acc.daily_ic,
          daily_decile_spread |-> acc.daily_decile_spread,
          daily_n_obs |-> acc.daily_n_obs,
          rolling |-> _rolling_metrics(valid_dates, acc.ic_values, rolling_window)] :
         <<date_pairs, acc>> \in
             {<<p, detail_loop(valid_dates, p, method, 1,
                        [daily_ic |-> <<>>, daily_decile_spread |-> <<>>,
                         daily_n_obs |-> <<>>, ic_values |-> <<>>])>> :
              p \in {date_pairs_loop(rows, target_map, 1, <<>>)}}} : TRUE

\* -------------------------------------------------- feature-power requests
\* A request is described day by day.  On a day of a given kind, `size`
\* instruments have a row in the feature store, `shape` gives their feature
\* values and the target of the j-th instrument is j.  `defects` spoils the
\* first rows of the day:
\*   "nan" / "null"  the feature value is NaN / NULL,
\*   "no_target"     the target map has no value for the instrument that day,
\*   "upper"         the store spells the label in upper case (still a match),
\* and `targets` tells whether the target map has an entry for the day.
\* The days of a request follow the order of DayKinds, a kind may repeat: a
\* day without pairs occurs before, between and after days with pairs.
MaxDays == 3
InstrumentNames == <<"a", "b", "c", "d", "e", "f", "g", "h", "i", "j">>
DayKinds ==
    <<[size |-> 4, shape |-> "zigzag", defects |-> <<"upper", "no_target">>,
       targets |-> TRUE],
      [size |-> 2, shape |-> "flat", defects |-> <<"nan", "null">>,
       targets |-> TRUE],
      [size |-> 10, shape |-> "zigzag", defects |-> <<>>, targets |-> TRUE],
      [size |-> 1, shape |-> "flat", defects |-> <<>>, targets |-> FALSE],
      [size |-> 10, shape |-> "flat", defects |-> <<>>, targets |-> TRUE]>>
Requests ==
    {[d \in 1..Len(kinds) |-> DayKinds[kinds[d]]] :
     kinds \in {ks \in SeqsUpTo(1..Len(DayKinds), MaxDays) :
                   \A d \in 1..(Len(ks) - 1) : ks[d] <= ks[d + 1]}}
Methods == {"spearman", "pearson"}
RollingWindows == {2}

defect_of(block, j) ==
    IF j <= Len(block.defects) THEN block.defects[j] ELSE "none"

feature_of(block, j) ==
    IF defect_of(block, j) = "nan" THEN NotANumber
    ELSE IF defect_of(block, j) = "null" THEN None
    ELSE IF block.shape = "zigzag" THEN Num((j * 3) % 7)
    ELSE Num(1)

label_of(block, j) ==
    IF defect_of(block, j) = "upper" THEN "A" ELSE InstrumentNames[j]

\* The rows the store returns, ordered by date.
RECURSIVE rows_of(_, _)
rows_of(days, d) ==
    IF d > Len(days) THEN <<>>
    ELSE [j \in 1..days[d].size |->
             [instrument |-> label_of(days[d], j), date |-> d,
              value |-> feature_of(days[d], j)]] \o rows_of(days, d + 1)

\* What _build_target_map returned: the targets by date and lower-cased
\* instrument (a date without targets has no entry), and the valid dates.
targets_of_day(block) ==
    [name \in {InstrumentNames[j] : j \in
                  {i \in 1..block.size :
                      /\ block.targets
                      /\ defect_of(block, i) # "no_target"}} |->
        Num(CHOOSE j \in 1..block.size : InstrumentNames[j] = name)]

target_map_of(days) ==
    [d \in {x \in 1..Len(days) : targets_of_day(days[x]) # <<>>} |->
        targets_of_day(days[d])]

request_dates(days) == [d \in 1..Len(days) |-> d]

FeaturePower ==
    /\ power_call.op = "idle"
    /\ \E days \in Requests, method \in Methods :
         \E rows \in {rows_of(days, 1)}, target_map \in {target_map_of(days)} :
           power_call' =
               [op |-> "feature_power", rows |-> rows, target_map |-> target_map,
                valid_dates |-> request_dates(days), method |-> method,
                result |-> feature_power(rows, target_map, request_dates(days),
                                         method)]
    /\ UNCHANGED <<calVars, slice_call, target_call, stat_call, dd_call,
                 serviceVars, jobVars>>

FeaturePowerSummary ==
    /\ power_call.op = "idle"
    /\ \E days \in Requests, method \in Methods :
         \E rows \in {rows_of(days, 1)}, target_map \in {target_map_of(days)} :
           power_call' =
               [op |-> "feature_power_summary", rows |-> rows,
                target_map |-> target_map,
                valid_dates |-> request_dates(days), method |-> method,
                result |-> feature_power_summary(rows, target_map,
                                                 request_dates(days), method)]
    /\ UNCHANGED <<calVars, slice_call, target_call, stat_call, dd_call,
                 serviceVars, jobVars>>

FeaturePowerDetail ==
    /\ power_call.op = "idle"
    /\ \E days \in Requests, method \in Methods,
          rolling_window \in RollingWindows :
         \E rows \in {rows_of(days, 1)}, target_map \in {target_map_of(days)} :
           power_call' =
               [op |-> "feature_power_detail", rows |-> rows,
                target_map |-> target_map,
                valid_dates |-> request_dates(days), method |-> method,
                rolling_window |-> rolling_window,
                result |-> feature_power_detail(rows, target_map,
                               request_dates(days), method, rolling_window)]
    /\ UNCHANGED <<calVars, slice_call, target_call, stat_call, dd_call,
                 serviceVars, jobVars>>

NextPower == FeaturePower \/ FeaturePowerSummary \/ FeaturePowerDetail
SpecPower == InitStats /\ [][NextPower]_vars

\* --------------------------------------------- claims on the feature power
PowerOps == {"feature_power", "feature_power_summary", "feature_power_detail"}
Aggregated == power_call.op \in {"feature_power", "feature_power_summary"}

\* The rows that may be paired by the wording of the claims, and the sample
\* they form on a date.
Missing(value) == value = None \/ value = NotANumber
Qualifies(row, target_map) ==
    /\ ~Missing(row.value)
    /\ row.date \in DOMAIN target_map
    /\ Lower(row.instrument) \in DOMAIN target_map[row.date]

SampleOn(rows, target_map, day) ==
    LET keep(row) == row.date = day /\ Qualifies(row, target_map)
        kept == SelectSeq(rows, keep)
    IN  [i \in 1..Len(kept) |->
            <<kept[i].value, target_map[day][Lower(kept[i].instrument)]>>]

\* C11: in feature_power, feature_power_summary and feature_power_detail
\* every pair of a day's sample comes from a store row of that day whose
\* value is neither null nor NaN and whose (date, lower-cased instrument) has
\* a target; no pair has a missing side.
C11_PairsHaveBothSides ==
    power_call.op \in PowerOps =>
        \A day \in DOMAIN power_call.result.date_pairs :
          \A pairs \in {power_call.result.date_pairs[day]} :
            \A k \in 1..Len(pairs) :
              /\ ~Missing(pairs[k][1])
              /\ ~Missing(pairs[k][2])
              /\ \E i \in 1..Len(power_call.rows) :
                   /\ power_call.rows[i].date = day
                   /\ Qualifies(power_call.rows[i], power_call.target_map)
                   /\ pairs[k] =
                        <<power_call.rows[i].value,
                          power_call.target_map[day]
                              [Lower(power_call.rows[i].instrument)]>>

\* A NaN row was left out, an upper-case label was paired.
C11_Witness ==
    /\ power_call.op = "feature_power_detail"
    /\ \E i \in 1..Len(power_call.rows) : power_call.rows[i].value = NotANumber
    /\ \E i \in 1..Len(power_call.rows) :
         /\ power_call.rows[i].instrument = "A"
         /\ Len(power_call.result.date_pairs[power_call.rows[i].date]) = 3

\* The valid dates, in order, that satisfy a test.
DatesWhere(valid_dates, Test(_)) == SelectSeq(valid_dates, Test)

RECURSIVE IntSum(_, _)
IntSum(f, i) == IF i > Len(f) THEN 0 ELSE f[i] + IntSum(f, i + 1)

ClaimedStatistics(ics) ==
    LET n == Len(ics)
        mean == FDiv(FSum(ics), Num(n))
        std == FSqrt(FDiv(FSum([k \in 1..n |->
                                   FMul(FSub(ics[k], mean), FSub(ics[k], mean))]),
                          Num(n - 1)))
    IN  [ic_mean |-> IF n >= 1 THEN mean ELSE None,
         ic_std |-> IF n >= 2 THEN std ELSE None,
         ic_ir |-> IF n >= 2 /\ std # Zero THEN FDiv(mean, std) ELSE None,
         t_stat |-> IF n >= 2 /\ std # Zero
                    THEN FDiv(mean, FDiv(std, FSqrt(Num(n)))) ELSE None]

\* C13: in the aggregation of feature_power and feature_power_summary the
\* mean, standard deviation, information ratio and t-statistic are those of
\* the daily ICs of exactly the valid dates whose IC is defined, n being
\* their number; a valid date without qualifying pairs adds nothing to the
\* IC list, to the decile sums and counts or to n_obs (these are the sums and
\* counts over the dates with pairs) and is never counted as a zero.
C13_DefinedDaysOnly ==
    Aggregated =>
      \A sample \in {[day \in 1..Len(power_call.valid_dates) |->
                         SampleOn(power_call.rows, power_call.target_map,
                                  power_call.valid_dates[day])]} :
        \A ic \in {[day \in 1..Len(sample) |->
                       daily_ic(sample[day], power_call.method)]},
           means \in {[day \in 1..Len(sample) |-> _decile_means(sample[day])]} :
          LET Defined(day) == ic[day] # None
              Populated(day) == sample[day] # <<>>
              InBucket(b) ==
                  LET HasMember(day) ==
                          /\ Populated(day)
                          /\ means[day] # <<>>
                          /\ means[day][b] # None
                  IN  DatesWhere(power_call.valid_dates, HasMember)
          IN  \A defined \in {DatesWhere(power_call.valid_dates, Defined)},
                 populated \in {DatesWhere(power_call.valid_dates, Populated)} :
                /\ \A k \in 1..Len(defined) : Populated(defined[k])
                /\ power_call.result.ic_values =
                     [k \in 1..Len(defined) |-> ic[defined[k]]]
                /\ \A stats \in {ClaimedStatistics(power_call.result.ic_values)} :
                     /\ power_call.result.ic_mean = stats.ic_mean
                     /\ power_call.result.ic_std = stats.ic_std
                     /\ power_call.result.ic_ir = stats.ic_ir
                     /\ power_call.result.t_stat = stats.t_stat
                /\ power_call.result.n_obs =
                     IntSum([k \in 1..Len(populated) |->
                                Len(sample[populated[k]])], 1)
                /\ \A b \in 1..10 :
                     \A days \in {InBucket(b)} :
                       /\ power_call.result.decile_count[b] = Len(days)
                       /\ power_call.result.decile_sum[b] =
                            FSum([k \in 1..Len(days) |-> means[days[k]][b]])

\* Three valid dates, one of them without pairs, two daily ICs and a
\* standard deviation.
C13_Witness ==
    /\ power_call.op = "feature_power"
    /\ Len(power_call.valid_dates) = 3
    /\ \E day \in 1..3 : day \notin DOMAIN power_call.result.date_pairs
    /\ Len(power_call.result.ic_values) = 2
    /\ power_call.result.ic_std \notin {None, Zero}

\* C17: each entry of the aggregated decile curve is the average of the
\* bucket's daily means over exactly the days on which the bucket had a
\* member (none without such a day); the aggregated spread is entry 9 minus
\* entry 0 when both have a contributing day, else none; feature_power and
\* feature_power_summary report the same spread for the same inputs (for
\* both, the spread is this one function of the rows, targets and dates).
C17_AggregatedDeciles ==
    Aggregated =>
      \A means \in {[day \in 1..Len(power_call.valid_dates) |->
                        _decile_means(SampleOn(power_call.rows,
                            power_call.target_map, power_call.valid_dates[day]))]} :
        LET Contributing(b) ==
                LET HasMember(day) == means[day] # <<>> /\ means[day][b] # None
                IN  DatesWhere(power_call.valid_dates, HasMember)
            ClaimedEntry(b) ==
                LET days == Contributing(b)
                IN  IF days = <<>> THEN None
                    ELSE FDiv(FSum([k \in 1..Len(days) |-> means[days[k]][b]]),
                              Num(Len(days)))
        IN  \A curve \in {[b \in 1..10 |-> ClaimedEntry(b)]} :
              /\ power_call.op = "feature_power"
                   => power_call.result.decile_curve = curve
              /\ power_call.result.decile_spread =
                   IF curve[1] # None /\ curve[10] # None
                   THEN FSub(curve[10], curve[1]) ELSE None

\* Two days with ten instruments each and different bucket means, and a day
\* that fills no bucket.
C17_Witness ==
    /\ power_call.op = "feature_power"
    /\ power_call.result.decile_count[1] = 2
    /\ Len(power_call.valid_dates) = 3
    /\ power_call.result.decile_spread \notin {None, Num(2), Num(9)}

\* ------------------------------------------- claims on the trailing buffer
\* C25: in _rolling_metrics, after input position i the trailing buffer holds
\* exactly the last min(i + 1, window) input values in order, absent values
\* included, never more than window values (a window below 1 counts as 1);
\* the metrics of position i are those of the non-absent values of that
\* buffer; each of the four series has one point per input value, in input
\* order, with the date of its position.  (Positions are 1-based here.)
C25_TrailingBuffer ==
    Called("_rolling_metrics") =>
      \A window \in {IF stat_call.window < 1 THEN 1 ELSE stat_call.window} :
        LET values == stat_call.values
            out == stat_call.result
            n == Len(values)
            Last(i) == SubSeq(values, IF i > window THEN i - window + 1 ELSE 1, i)
        IN  /\ Len(stat_call.buffers) = n
            /\ Len(out.ic_mean) = n /\ Len(out.ic_std) = n
            /\ Len(out.ic_ir) = n /\ Len(out.t_stat) = n
            /\ \A i \in 1..n :
                 /\ stat_call.buffers[i] = Last(i)
                 /\ Len(stat_call.buffers[i]) = Min2(i, window)
                 /\ Len(stat_call.buffers[i]) <= window
                 /\ \A stats \in {ClaimedStatistics(SelectSeq(Last(i), NotNone))} :
                      /\ out.ic_mean[i] = [date |-> i, value |-> stats.ic_mean]
                      /\ out.ic_std[i] = [date |-> i, value |-> stats.ic_std]
                      /\ out.ic_ir[i] = [date |-> i, value |-> stats.ic_ir]
                      /\ out.t_stat[i] = [date |-> i, value |-> stats.t_stat]

\* A window of two over four values with an absent one: the buffer slides.
C25_Witness ==
    /\ Called("_rolling_metrics")
    /\ stat_call.window = 2
    /\ stat_call.values = <<Num(1), None, Num(86), Num(0)>>
    /\ stat_call.buffers[2] = <<Num(1), None>>
    /\ stat_call.buffers[4] = <<Num(86), Num(0)>>
    /\ stat_call.result.ic_mean[2].value = Num(1)
    /\ stat_call.result.ic_std[4].value # None

\* ------------------------------------------------ claims on the episodes
\* The running peaks of the analysed curve, position by position, and the
\* position at which an event ends (its recovery, or
\* one past the end of the curve for an event without recovery).  The dates
\* of the analysed curve are its positions.
RECURSIVE PeaksFrom(_, _)
PeaksFrom(i, peaks) ==
    IF i > Len(dd_call.equity) THEN peaks
    ELSE CHOOSE out \in
             {PeaksFrom(i + 1, next) :
              next \in {Append(peaks,
                           IF i > 1 /\ ~QLess(peaks[i - 1], dd_call.equity[i])
                           THEN peaks[i - 1] ELSE dd_call.equity[i])}} : TRUE
Peaks == PeaksFrom(1, <<>>)
Recovered(event) == event.recovery # NoDate
EndOf(event) ==
    IF Recovered(event) THEN event.recovery ELSE Len(dd_call.equity) + 1
Covers(event, i) == event.start <= i /\ i < EndOf(event)

\* C26: in _compute_drawdowns every drawdown episode is emitted as exactly
\* one event and episodes never overlap: an open episode is closed at the
\* first later step whose value strictly exceeds the running peak (that
\* step's date is the recovery and the value the new peak; a value equal to
\* the peak does not close it), an episode still open at the end is emitted
\* without recovery, so at most one event has no recovery and it is the one
\* with the latest start.
C26_OneEventPerEpisode ==
    (Analysed /\ dd_call.equity # <<>>) =>
      \A events \in {dd_call.events}, equity \in {dd_call.equity},
         peaks \in {Peaks} :
        LET n == Len(equity)
            Events == 1..Len(events)
            Below(i) == QLess(equity[i], peaks[i])
        IN  /\ \A i \in 1..n :
                 Below(i) =>
                     Cardinality({k \in Events : Covers(events[k], i)}) = 1
            /\ \A k \in Events :
                 \A event \in {events[k]} :
                   /\ event.start \in 1..n
                   /\ Below(event.start)
                   /\ event.start > 1 =>
                        \/ ~Below(event.start - 1)
                        \/ \E l \in Events : EndOf(events[l]) = event.start
                   /\ \A j \in event.start..(EndOf(event) - 1) :
                        ~QLess(peaks[event.start], equity[j])
                   /\ Recovered(event) =>
                        /\ event.recovery \in (event.start + 1)..n
                        /\ QLess(peaks[event.start], equity[event.recovery])
                        /\ dd_call.drawdowns[event.recovery] = Zero
            /\ \A k, l \in Events :
                 k # l => \/ EndOf(events[k]) <= events[l].start
                          \/ EndOf(events[l]) <= events[k].start
            /\ Cardinality({k \in Events : ~Recovered(events[k])}) <= 1
            /\ \A k, l \in Events :
                 ~Recovered(events[k]) => events[l].start <= events[k].start

\* A recovered episode that touched its peak without closing, then an
\* episode still open at the end.
C26_Witness ==
    /\ Analysed
    /\ dd_call.equity = <<Float(1, 1), Float(9, 10), Float(1, 1), Float(11, 10),
                          Float(19, 20)>>
    /\ Len(dd_call.events) = 2
    /\ \E k \in 1..2 : /\ dd_call.events[k].start = 2
                       /\ dd_call.events[k].recovery = 4
    /\ \E k \in 1..2 : /\ dd_call.events[k].start = 5
                       /\ dd_call.events[k].recovery = NoDate

\* C27: for every event of _compute_drawdowns, length is the index distance
\* from the start to the terminal index (the recovery, or the last index of
\* the curve without recovery), days_to_trough the index distance from start
\* to trough, the trough is the first index of the episode at which the
\* minimum depth is reached, and 0 <= days_to_trough <= length, with
\* days_to_trough < length for a recovered event.
C27_LengthsAndTrough ==
    (Analysed /\ dd_call.equity # <<>>) =>
      \A k \in 1..Len(dd_call.events) :
        \A event \in {dd_call.events[k]} :
          LET terminal == IF Recovered(event) THEN event.recovery
                          ELSE Len(dd_call.equity)
              Episode == event.start..(EndOf(event) - 1)
          IN  /\ event.length = terminal - event.start
              /\ event.days_to_trough = event.trough - event.start
              /\ event.trough \in Episode
              /\ dd_call.drawdowns[event.trough] = event.depth
              /\ \A j \in Episode : QLeq(event.depth, dd_call.drawdowns[j])
              /\ \A j \in Episode :
                   j < event.trough => QLess(event.depth, dd_call.drawdowns[j])
              /\ 0 <= event.days_to_trough
              /\ event.days_to_trough <= event.length
              /\ Recovered(event) => event.days_to_trough < event.length

\* The minimum is reached twice after the start; then an open episode whose
\* trough is its last index.
C27_Witness ==
    /\ Analysed
    /\ dd_call.equity = <<Float(11, 10), Float(1, 1), Float(9, 10), Float(9, 10),
                          Float(12, 10)>>
    /\ Len(dd_call.events) = 1
    /\ dd_call.events[1].start = 2
    /\ dd_call.events[1].trough = 3
    /\ dd_call.events[1].recovery = 5
    /\ dd_call.events[1].length = 3
    /\ dd_call.events[1].days_to_trough = 1

\* ------------------------------------------- claims on the resolved indices
\* C28 as stated: in slice_calendar, after clamping, the resolved start index
\* and the resolved end index both lie in [0, len(calendar) - 1] for every
\* calendar and every pair of bounds with start <= end.
C28_IndicesWithinCalendar ==
    (Sliced /\ slice_call.start <= slice_call.end) =>
        /\ slice_call.start_idx \in 0..(Len(calendar_dates) - 1)
        /\ slice_call.end_idx \in 0..(Len(calendar_dates) - 1)

\* C28 as the code has it: with start <= end the resolved start index lies in
\* [0, len(calendar)] and the resolved end index in [-1, len(calendar) - 1];
\* both lie in [0, len(calendar) - 1] whenever the returned slice is not
\* empty.
C28_ClampedIndices ==
    (Sliced /\ slice_call.start <= slice_call.end) =>
        /\ slice_call.start_idx \in 0..Len(calendar_dates)
        /\ slice_call.end_idx \in (-1)..(Len(calendar_dates) - 1)
        /\ slice_call.value # <<>> =>
             /\ slice_call.start_idx \in 0..(Len(calendar_dates) - 1)
             /\ slice_call.end_idx \in 0..(Len(calendar_dates) - 1)

\* A window after the last trading day: the start index is len(calendar).
C28_Witness ==
    /\ Sliced
    /\ slice_call.start <= slice_call.end
    /\ Len(calendar_dates) >= 2
    /\ slice_call.start > calendar_dates[Len(calendar_dates)]
    /\ slice_call.start_idx = Len(calendar_dates)
    /\ slice_call.end_idx = Len(calendar_dates) - 1
    /\ slice_call.value = <<>>

\* ------------------------------------------------------- the index series
\* A close series as _load_close_series returns it: the dates with a
\* non-missing close, each with its close.
CloseSeries(closes) ==
    UNION {[days -> closes] : days \in SUBSET Dates}
InstrumentCloses == {10}
IndexCloses == {100, 110}

\* The calendars slice_calendar can return: trading days in increasing order.
RequestedCalendars ==
    {calendar \in SeqsUpTo(Dates, MaxDate) :
        \A i \in 1..(Len(calendar) - 1) : calendar[i] < calendar[i + 1]}

\* _first_available_date(values, calendar): the first day of the calendar for
\* which values has an entry, or None.
_first_available_date(values, calendar) ==
    IF \E i \in 1..Len(calendar) : calendar[i] \in DOMAIN values
    THEN calendar[CHOOSE i \in 1..Len(calendar) :
                      /\ calendar[i] \in DOMAIN values
                      /\ \A j \in 1..(i - 1) : calendar[j] \notin DOMAIN values]
    ELSE NoDate

\* The series index_series builds for one market index: for every requested
\* day the close of the index, None where it has none.
index_series(calendar_requested, index_closes) ==
    [i \in 1..Len(calendar_requested) |->
        [date |-> calendar_requested[i],
         value |-> IF calendar_requested[i] \in DOMAIN index_closes
                   THEN Num(index_closes[calendar_requested[i]]) ELSE None]]

\* A call of _first_available_date on an instrument's closes.
FirstAvailableDate ==
    /\ index_call.op = "idle"
    /\ \E calendar \in RequestedCalendars, closes \in CloseSeries(InstrumentCloses) :
         index_call' = [op |-> "_first_available_date", calendar |-> calendar,
                        instrument_closes |-> closes,
                        result |-> _first_available_date(closes, calendar)]
    /\ UNCHANGED <<calVars, slice_call, target_call, helperVars, request_call,
                   scan_call, http_call, jobVars>>

\* GET /index-series for a known instrument and one market index, from the
\* point where the requested calendar is sliced.  The instrument's closes are
\* what the price store holds for it; the endpoint does not read them.
IndexSeries ==
    /\ index_call.op = "idle"
    /\ \E calendar \in RequestedCalendars,
          closes \in CloseSeries(InstrumentCloses),
          index_closes \in CloseSeries(IndexCloses) :
         index_call' = [op |-> "index_series", calendar |-> calendar,
                        instrument_closes |-> closes,
                        index_closes |-> index_closes,
                        result |-> index_series(calendar, index_closes)]
    /\ UNCHANGED <<calVars, slice_call, target_call, helperVars, request_call,
                   scan_call, http_call, jobVars>>

NextIndex == FirstAvailableDate \/ IndexSeries
SpecIndex == InitStats /\ [][NextIndex]_vars

\* ------------------------------------------------- claims on the rebasing
\* The base date by the wording of the claim: the first requested date at
\* which the instrument has a close.
HasBaseDate(calendar, closes) ==
    \E i \in 1..Len(calendar) : calendar[i] \in DOMAIN closes
BasePosition(calendar, closes) ==
    CHOOSE i \in 1..Len(calendar) :
        /\ calendar[i] \in DOMAIN closes
        /\ \A j \in 1..(i - 1) : calendar[j] \notin DOMAIN closes

\* C21: the index rebaser takes as base date the first date of the requested
\* range at which the instrument has a non-missing close (d2 for closes
\* {d2: 10.0} over [d1, d3]), and the rebased reference value it returns at
\* the base date equals the instrument's base close exactly.
C21_RebasedAtBaseDate ==
    /\ (index_call.op = "_first_available_date"
        /\ HasBaseDate(index_call.calendar, index_call.instrument_closes))
       => index_call.result =
            index_call.calendar[BasePosition(index_call.calendar,
                                             index_call.instrument_closes)]
    /\ (index_call.op = "index_series"
        /\ HasBaseDate(index_call.calendar, index_call.instrument_closes))
       => \A base \in {BasePosition(index_call.calendar,
                                    index_call.instrument_closes)} :
            index_call.result[base].value # None
              => index_call.result[base].value =
                   Num(index_call.instrument_closes[index_call.calendar[base]])

\* ------------------------------------- the feature-power request validation
\* The JSON body of a POST /feature-power, /feature-power/summary or
\* /feature-power/detail request, as far as the endpoints validate it before
\* they read any feature: the correlation method, horizon_days and
\* rolling_window as the text or number the client sent, the two dates and
\* the target kind.  The features, the feature name and the universe of the
\* request are well formed and known.
KnownMethods == {"spearman", "pearson"}
RequestedMethods == {"spearman", "kendall"}
\* A number field of the body: an integer, or something int() rejects.
NotAnInteger == [kind |-> "text", value |-> 0]
RawInt(n) == [kind |-> "int", value |-> n]
RequestedHorizons == {NotAnInteger} \cup {RawInt(h) : h \in Horizons}
DefaultRollingWindow == 20
RequestedWindows == {RawInt(0), RawInt(DefaultRollingWindow)}
\* A date field of the body: absent, a text strptime rejects, or a date.
MissingDate == [kind |-> "missing", date |-> 0]
MalformedDate == [kind |-> "malformed", date |-> 0]
RequestedDates == {MissingDate, MalformedDate} \cup {[kind |-> "date", date |-> d] : d \in Dates}
RequestedTargets == {"ret_cc", "ret_oc"}
\* The provider's answer to the price request: nothing, or a frame with an
\* open and a close on every trading day of the range.
PricedBar == [open |-> 1, close |-> 2]
RequestData(days) ==
    {EmptyData} \cup {f \in Frames(days) : \A d \in days : f.rows[d] = PricedBar}

\* JSONResponse(payload, status_code): the status and which check answered.
Answer(status_code, error) == [status_code |-> status_code, error |-> error]
BadRequest == 400
ServerError == 500
Success == 200

\* The try / except around _build_target_map in the three endpoints:
\* RuntimeError -> _error(str(exc), status_code=500), ValueError -> _error,
\* otherwise the endpoint goes on to its 200 response.
answer_of_build(status) ==
    IF status = "RuntimeError" THEN Answer(ServerError, "dependency")
    ELSE IF status = "ValueError" THEN Answer(BadRequest, "target_map")
    ELSE Answer(Success, "")

\* _parse_iso_date on both dates: the first ValueError, if any.
dates_parse(date_from, date_to) ==
    date_from.kind = "date" /\ date_to.kind = "date"

\* The checks of an endpoint in the order of its code, up to the call of
\* _build_target_map: the error answer, or "build" when the call is made.
request_checks(endpoint, body) ==
    IF body.method \notin KnownMethods THEN Answer(BadRequest, "method")
    ELSE IF body.horizon_days.kind # "int" THEN Answer(BadRequest, "horizon_days")
    ELSE IF body.horizon_days.value < 0 THEN Answer(BadRequest, "horizon_days")
    ELSE IF endpoint = "feature_power_detail" /\ body.rolling_window.kind # "int"
    THEN Answer(BadRequest, "rolling_window")
    ELSE IF endpoint = "feature_power_detail" /\ body.rolling_window.value <= 0
    THEN Answer(BadRequest, "rolling_window")
    ELSE IF ~dates_parse(body.date_from, body.date_to) THEN Answer(BadRequest, "date")
    ELSE Answer(0, "build")

\* The endpoint from the parsed body to the status of its response.
feature_power_answer(endpoint, body, calendar, index, qlib, data) ==
    LET checked == request_checks(endpoint, body)
    IN  IF checked.error # "build" THEN checked
        ELSE answer_of_build(
                 _build_target_map(<<"a">>, body.date_from.date, body.date_to.date,
                                   body.horizon_days.value, body.target,
                                   calendar, index, qlib, data).status)

\* The bodies an endpoint reads; rolling_window is read by the detail
\* endpoint only.
Bodies(endpoint) ==
    [method : RequestedMethods, horizon_days : RequestedHorizons,
     rolling_window : IF endpoint = "feature_power_detail" THEN RequestedWindows
                      ELSE {RawInt(DefaultRollingWindow)},
     date_from : RequestedDates, date_to : RequestedDates,
     target : RequestedTargets]

\* What the provider would return for the request, when it is asked.
data_for(endpoint, body, calendar, index, qlib) ==
    IF request_checks(endpoint, body).error # "build" THEN {NotFetched}
    ELSE LET pre == before_fetch(body.date_from.date, body.date_to.date,
                                 body.horizon_days.value, calendar, index, qlib)
         IN  IF pre.status = "fetch" THEN RequestData(SeqRange(pre.calendar))
             ELSE {NotFetched}

\* One request to an endpoint on the loaded calendar.
Request(endpoint) ==
    /\ phase = "ready"
    /\ request_call = NoCall
    /\ \E body \in Bodies(endpoint), qlib \in BOOLEAN :
         \E data \in data_for(endpoint, body, calendar_dates, calendar_index, qlib) :
           request_call' =
             [op |-> endpoint, body |-> body, qlib |-> qlib, data |-> data,
              answer |-> feature_power_answer(endpoint, body, calendar_dates,
                                              calendar_index, qlib, data)]
    /\ UNCHANGED <<calVars, slice_call, target_call, helperVars, index_call,
                   scan_call, http_call, jobVars>>

FeaturePowerRequest == Request("feature_power")
FeaturePowerSummaryRequest == Request("feature_power_summary")
FeaturePowerDetailRequest == Request("feature_power_detail")

NextRequest ==
    \/ Startup
    \/ FeaturePowerRequest
    \/ FeaturePowerSummaryRequest
    \/ FeaturePowerDetailRequest

SpecRequest == InitTarget /\ [][NextRequest]_vars

\* ------------------------------------------------ claims on the validation
Requested == request_call # NoCall
\* The configuration errors of a request body.
BadDate == ~dates_parse(request_call.body.date_from, request_call.body.date_to)
FromAfterTo ==
    /\ ~BadDate
    /\ request_call.body.date_from.date > request_call.body.date_to.date
BadHorizon ==
    \/ request_call.body.horizon_days.kind # "int"
    \/ request_call.body.horizon_days.value < 0
BadTarget == request_call.body.target \notin {"ret_cc", "close_open", "open_open"}
BadMethod == request_call.body.method \notin {"spearman", "pearson"}
BadWindow ==
    /\ request_call.op = "feature_power_detail"
    /\ \/ request_call.body.rolling_window.kind # "int"
       \/ request_call.body.rolling_window.value <= 0
ConfigurationError ==
    BadDate \/ FromAfterTo \/ BadHorizon \/ BadTarget \/ BadMethod \/ BadWindow

\* C22: a request with a configuration error (missing or malformed date, from
\* after to, negative horizon, unknown target kind, unknown method,
\* non-positive rolling window) is answered 400, never 500 or 200; a request
\* without one that finds the price provider unreachable is answered 500.
C22_ErrorKinds ==
    Requested =>
        /\ ConfigurationError => request_call.answer.status_code = 400
        /\ (~ConfigurationError /\ ~request_call.qlib) =>
               request_call.answer.status_code = 500

\* The two ways the answers differ from that, each reached by some request.
C22_UnknownTargetAnswered200 ==
    Requested /\ BadTarget /\ request_call.answer.status_code = 200
C22_FromAfterToAnswered500 ==
    Requested /\ FromAfterTo /\ ~BadTarget /\ request_call.answer.status_code = 500
\* What does hold: every check the endpoints make themselves answers 400, and
\* a well-formed request is answered 500 exactly when qlib cannot be imported.
C22_EndpointChecks ==
    Requested =>
        /\ (BadDate \/ BadHorizon \/ BadMethod \/ BadWindow) =>
               request_call.answer.status_code = 400
        /\ ~ConfigurationError =>
               (request_call.answer.status_code = 500 <=> ~request_call.qlib)

\* -------------------------------------------------- the curated root scanner
\* REQUIRED_DOMAINS in the order of the dict.
REQUIRED_DOMAINS ==
    <<"bars_eod", "universe_membership", "fx_rates", "cost_model_daily",
      "trading_calendar", "asset_master">>
Domains == SeqRange(REQUIRED_DOMAINS)

\* A directory name is a sequence of characters; "=" is the only one the
\* scanner looks at.
MaxNameLen == 4
NameChars == {"k", "="}
Names == UNION {[1..n -> NameChars] : n \in 1..MaxNameLen}

\* name.split("="), from position i on with the part read so far.
RECURSIVE split_from(_, _, _)
split_from(name, i, part) ==
    IF i > Len(name) THEN <<part>>
    ELSE IF name[i] = "=" THEN <<part>> \o split_from(name, i + 1, <<>>)
    ELSE split_from(name, i + 1, Append(part, name[i]))

split(name) == split_from(name, 1, <<>>)

\* "=" in name and len(name.split("=")) == 2 and all(parts)
_is_key_value_dir(name) ==
    /\ \E i \in 1..Len(name) : name[i] = "="
    /\ Len(split(name)) = 2
    /\ \A p \in 1..Len(split(name)) : split(name)[p] # <<>>

\* The entries a domain directory is populated with: directories with a
\* plain name, a partition name, a name with two "=" and one with an empty
\* key, and a plain file.
PlainDir == [name |-> <<"k">>, is_dir |-> TRUE]
PartitionDir == [name |-> <<"k", "=", "k">>, is_dir |-> TRUE]
EmptyKeyDir == [name |-> <<"=", "k">>, is_dir |-> TRUE]
PlainFile == [name |-> <<"k", "k">>, is_dir |-> FALSE]
Entries == {PlainDir, PartitionDir, EmptyKeyDir, PlainFile}
\* Most entries of one domain directory.
MaxChildren == 1
\* domain_path.iterdir(): the entries in the order the file system lists them.
Listings ==
    UNION {{l \in [1..n -> Entries] : \A i, j \in 1..n : i # j => l[i] # l[j]} :
              n \in 0..MaxChildren}

\* What root / domain is: nothing, a regular file, or a directory.
Absent == [kind |-> "absent", listing |-> <<>>]
RegularFile == [kind |-> "file", listing |-> <<>>]
Directory(listing) == [kind |-> "dir", listing |-> listing]
DomainPaths == {Absent, RegularFile} \cup {Directory(l) : l \in Listings}

\* The domains whose directory is populated: one that the multi-level branch
\* of the loop handles and asset_master, which has its own branch.
PopulatedDomains == {"bars_eod", "asset_master"}
UnpopulatedPaths == {Absent, RegularFile, Directory(<<>>)}

\* The curated root: missing, or a directory with the six domain paths.
MissingRoot == [exists |-> FALSE, domains |-> <<>>]
Roots ==
    {MissingRoot} \cup
    {[exists |-> TRUE,
      domains |-> [d \in Domains |-> IF d \in PopulatedDomains THEN p[d] ELSE u[d]]] :
        p \in [PopulatedDomains -> DomainPaths],
        u \in [Domains \ PopulatedDomains -> UnpopulatedPaths]}

PartitionIssue(domain, path, kind) == [domain |-> domain, path |-> path, kind |-> kind]

\* The loop over domain_path.iterdir(): an issue for each child directory
\* whose name is not a key=value name, in both branches of the code.
RECURSIVE children_issues(_, _, _)
children_issues(domain, listing, i) ==
    IF i > Len(listing) THEN <<>>
    ELSE (IF listing[i].is_dir /\ ~_is_key_value_dir(listing[i].name)
          THEN <<PartitionIssue(domain, <<domain, listing[i].name>>, "unexpected_plain_dir")>>
          ELSE <<>>)
         \o children_issues(domain, listing, i + 1)

\* The loop over REQUIRED_DOMAINS from domain number d on.  A domain path
\* that exists but is no directory makes iterdir() raise.
RECURSIVE domains_loop(_, _, _)
domains_loop(root, d, issues) ==
    IF d > Len(REQUIRED_DOMAINS) THEN [status |-> "ok", issues |-> issues]
    ELSE LET domain == REQUIRED_DOMAINS[d]
             domain_path == root.domains[domain]
         IN  IF domain_path.kind = "absent"
             THEN domains_loop(root, d + 1,
                      Append(issues, PartitionIssue(domain, <<domain>>, "missing_domain")))
             ELSE IF domain_path.kind = "file"
             THEN [status |-> "NotADirectoryError", issues |-> <<>>]
             ELSE domains_loop(root, d + 1,
                      issues \o children_issues(domain, domain_path.listing, 1))

scan_curated_root(root) ==
    IF ~root.exists
    THEN [status |-> "ok", issues |-> <<PartitionIssue("_root", <<>>, "missing_root")>>]
    ELSE domains_loop(root, 1, <<>>)

\* One scan of a curated root.
ScanCuratedRoot ==
    /\ scan_call = NoCall
    /\ \E root \in Roots :
         scan_call' = [op |-> "scan_curated_root", root |-> root,
                       out |-> scan_curated_root(root)]
    /\ UNCHANGED <<calVars, slice_call, target_call, helperVars, index_call,
                   request_call, http_call, jobVars>>

\* One call of the name test.
IsKeyValueDir ==
    /\ scan_call = NoCall
    /\ \E name \in Names :
         scan_call' = [op |-> "_is_key_value_dir", name |-> name,
                       out |-> _is_key_value_dir(name)]
    /\ UNCHANGED <<calVars, slice_call, target_call, helperVars, index_call,
                   request_call, http_call, jobVars>>

NextScan == ScanCuratedRoot \/ IsKeyValueDir

SpecScan == InitStats /\ [][NextScan]_vars

\* -------------------------------------------------------- claims on the scan
Scanned == scan_call.op = "scan_curated_root"
IssuesOfKind(kind) ==
    {scan_call.out.issues[i] : i \in {j \in 1..Len(scan_call.out.issues) :
                                        scan_call.out.issues[j].kind = kind}}
\* A name of the form key=value: one "=", with something on both sides.
KeyValueForm(name) ==
    \E i \in 2..(Len(name) - 1) :
        /\ name[i] = "="
        /\ \A j \in 1..Len(name) : j # i => name[j] # "="
\* The names of the child directories of a domain that are not key=value.
PlainChildrenOf(domain) ==
    LET listing == scan_call.root.domains[domain].listing
    IN  {listing[i].name : i \in {j \in 1..Len(listing) :
                                     listing[j].is_dir /\ ~KeyValueForm(listing[j].name)}}
\* The domains without a directory, and those with one.
WithoutDirectory == {d \in Domains : scan_call.root.domains[d].kind # "dir"}
WithDirectory == Domains \ WithoutDirectory
ReportsOfChildren ==
    /\ {i.domain : i \in IssuesOfKind("missing_domain")} = WithoutDirectory
    /\ {i.path : i \in IssuesOfKind("unexpected_plain_dir")} =
           {<<d, n>> : d \in WithDirectory, n \in Names} \cap
           UNION {{<<d, n>> : n \in PlainChildrenOf(d)} : d \in WithDirectory}
    /\ IssuesOfKind("missing_root") = {}

\* C23: a missing root gives exactly one issue, of kind missing_root; an
\* existing root gives missing_domain for exactly the required domains whose
\* directory is absent and unexpected_plain_dir for exactly the child
\* directories of present domains whose name is not key=value with both parts
\* non-empty.
C23_ScanReports ==
    /\ Scanned =>
          /\ scan_call.out.status = "ok"
          /\ ~scan_call.root.exists =>
                 /\ Len(scan_call.out.issues) = 1
                 /\ scan_call.out.issues[1].kind = "missing_root"
          /\ scan_call.root.exists => ReportsOfChildren
    /\ scan_call.op = "_is_key_value_dir" =>
          (scan_call.out <=> KeyValueForm(scan_call.name))

\* The scan that ends in an exception instead of a report.
C23_ScanRaises == Scanned /\ scan_call.out.status = "NotADirectoryError"
\* What does hold: the same reports on every root none of whose domain paths
\* is a regular file.
C23_OnDirectoryTrees ==
    /\ (Scanned /\ \A d \in DOMAIN scan_call.root.domains :
                      scan_call.root.domains[d].kind # "file") =>
          /\ scan_call.out.status = "ok"
          /\ ~scan_call.root.exists =>
                 /\ Len(scan_call.out.issues) = 1
                 /\ scan_call.out.issues[1].kind = "missing_root"
          /\ scan_call.root.exists => ReportsOfChildren
    /\ scan_call.op = "_is_key_value_dir" =>
          (scan_call.out <=> KeyValueForm(scan_call.name))
C23_PlainDirectoryReported ==
    /\ Scanned
    /\ scan_call.out.status = "ok"
    /\ IssuesOfKind("unexpected_plain_dir") # {}
    /\ IssuesOfKind("missing_domain") # {}

\* ------------------------------------------------- the read-only backend
\* A request to the backend service (src/backend/app/main.py): its method as
\* sent, its path as segments, and the X-API-Key header.  settings.api_key is
\* the process configuration the middleware reads.
READ_ONLY_ALLOWED_METHODS == {"GET", "HEAD", "OPTIONS", "WEBSOCKET"}
CONTROL_PREFIX == <<"api", "control">>
ARTIFACTS_PREFIX == <<"api", "artifacts">>
RequestMethods == {"GET", "HEAD", "OPTIONS", "POST", "post", "PUT", "DELETE"}
\* request.method.upper()
upper(method) == IF method = "post" THEN "POST" ELSE method
NoKey == "none"
ApiKeys == {NoKey, "key", "other"}
Backtest == <<"api", "backtest">>
JobsTrain == <<"api", "jobs", "train">>
BrokerOrders == <<"api", "broker", "orders">>
RequestPaths ==
    {<<>>, Backtest, JobsTrain, BrokerOrders, <<"api", "jobs">>,
     <<"api", "control", "jobs", "j1", "cancel">>, <<"api", "artifacts", "manifest">>}

\* path.startswith(prefix), on segments.
startswith(path, prefix) ==
    Len(path) >= Len(prefix) /\ SubSeq(path, 1, Len(prefix)) = prefix

Response(status_code, by) == [status_code |-> status_code, by |-> by]
MethodNotAllowed == 405
Unauthorized == 401
NotImplemented == 501
InternalServerError == 500

\* The mutation endpoints of routes.py that raise HTTPException(501).
DisabledMutations == {Backtest, JobsTrain, BrokerOrders}

\* The route the request reaches once the middleware calls call_next: a
\* disabled mutation endpoint raises 501; what the other routes answer is
\* left open.
OtherAnswers == {200, 404, 405, 501}
routed(method, path) ==
    IF method = "POST" /\ path \in DisabledMutations
    THEN {Response(NotImplemented, "route")}
    ELSE {Response(s, "route") : s \in OtherAnswers}

\* An HTTPException raised by the middleware itself reaches the client with
\* its own status when the framework handles it, and as an internal server
\* error when it does not: the exception handlers sit inside the middleware.
raised_in_middleware(status_code) ==
    {Response(status_code, "read_only_guard"),
     Response(InternalServerError, "read_only_guard")}

\* read_only_guard: the answers a request can get.
read_only_guard(method, path, api_key_setting, provided) ==
    IF ~startswith(path, CONTROL_PREFIX) /\ upper(method) \notin READ_ONLY_ALLOWED_METHODS
    THEN raised_in_middleware(MethodNotAllowed)
    ELSE IF api_key_setting # NoKey /\ startswith(path, ARTIFACTS_PREFIX)
            /\ (provided = NoKey \/ provided # api_key_setting)
    THEN raised_in_middleware(Unauthorized)
    ELSE routed(upper(method), path)

\* One request to the backend.
HttpRequest ==
    /\ http_call = NoCall
    /\ \E method \in RequestMethods, path \in RequestPaths,
          api_key_setting \in {NoKey, "key"}, provided \in ApiKeys :
         \E response \in read_only_guard(method, path, api_key_setting, provided) :
           http_call' = [op |-> "request", method |-> method, path |-> path,
                         api_key_setting |-> api_key_setting, provided |-> provided,
                         response |-> response]
    /\ UNCHANGED <<calVars, slice_call, target_call, helperVars, index_call,
                   request_call, scan_call, jobVars>>

NextHttp == HttpRequest

SpecHttp == InitStats /\ [][NextHttp]_vars

\* ---------------------------------------------- claims on the read-only API
ToDisabledMutation ==
    /\ http_call.op = "request"
    /\ upper(http_call.method) = "POST"
    /\ http_call.path \in {<<"api", "backtest">>, <<"api", "jobs", "train">>,
                           <<"api", "broker", "orders">>}

\* C24: a POST to /api/backtest, /api/jobs/train or /api/broker/orders passes
\* the read-only middleware and is answered 501.
C24_DisabledMutationsAnswer501 ==
    ToDisabledMutation =>
        /\ http_call.response.by = "route"
        /\ http_call.response.status_code = 501

\* What the code does with these requests: the middleware rejects every one.
C24_RejectedByTheGuard ==
    ToDisabledMutation =>
        /\ http_call.response.by = "read_only_guard"
        /\ http_call.response.status_code \in {405, 500}
C24_Rejected == ToDisabledMutation /\ http_call.response.by = "read_only_guard"

\* ------------------------------------------------------- the job manager
\* JobManager (src/backend/app/control/jobs.py).  A job is its JobRecord
\* (status, cancelled, pid) together with the position of the worker thread
\* that runs _execute for it and the status the worker has decided on but not
\* yet assigned.  Job ids are the positions in `jobs`.
MaxJobs == 2
max_workers == 2
TerminalStatuses == {"succeeded", "failed", "cancelled"}
NoPid == 0
ChildPid == 1
ReturnCodes == {0, 1}

\* JobRecord(id, task_id, argv): queued, not cancelled, no pid; the task
\* is submitted to the executor.
JobRecord ==
    [status |-> "queued", cancelled |-> FALSE, pid |-> NoPid,
     pc |-> "submitted", decided |-> ""]

\* _hydrate_finished: the record of a persisted line; no worker runs it.
hydrated(line) ==
    [status |-> line.status, cancelled |-> FALSE, pid |-> NoPid,
     pc |-> "done", decided |-> ""]

\* The persistence file a manager is constructed on: absent or empty, or
\* with the line of a job an earlier process finished.
PriorStores == {<<>>} \cup {<<[id |-> 1, status |-> s]>> : s \in TerminalStatuses}

\* Faulty variant: cancel() marks the job cancelled itself.
cancel_marking_status(rec) ==
    [rec EXCEPT !.cancelled = TRUE, !.status = "cancelled"]

\* cancel() on a known job: rec.cancelled = True; the signal to the child
\* changes nothing in the record.
cancel(rec) ==
    [rec EXCEPT !.cancelled = TRUE]

\* Lines 230-235: the status the worker chooses after proc.wait().
decide(cancelled, returncode) ==
    IF cancelled THEN "cancelled"
    ELSE IF returncode = 0 THEN "succeeded"
    ELSE "failed"

\* _persist: the lines of the file after the call; only a terminal status is
\* written.
_persist(store, id, rec) ==
    IF rec.status \notin TerminalStatuses THEN store
    ELSE Append(store, [id |-> id, status |-> rec.status])

\* The worker threads inside _execute.
Busy == {i \in 1..Len(jobs) : jobs[i].pc \notin {"submitted", "done"}}

\* run(): a new record is stored and its execution submitted.
Run ==
    /\ Len(jobs) < MaxJobs
    /\ jobs' = Append(jobs, JobRecord)
    /\ cancel_returns' = Append(cancel_returns, {})
    /\ UNCHANGED <<calVars, slice_call, target_call, helperVars, serviceVars, jobs_store>>

\* cancel(job_id) for a known job, as cancel_job calls it: it returns True;
\* the status the job has at that moment is noted unless it is terminal.
Cancel ==
    /\ \E i \in 1..Len(jobs) :
         /\ jobs' = [jobs EXCEPT ![i] = cancel(jobs[i])]
         /\ cancel_returns' =
                [cancel_returns EXCEPT ![i] = @ \cup ({jobs'[i].status} \ TerminalStatuses)]
    /\ UNCHANGED <<calVars, slice_call, target_call, helperVars, serviceVars, jobs_store>>

\* A free worker of the pool picks the job up: rec.status = "running".
Start ==
    /\ \E i \in 1..Len(jobs) :
         /\ jobs[i].pc = "submitted"
         /\ Cardinality(Busy) < max_workers
         /\ jobs' = [jobs EXCEPT ![i].status = "running", ![i].pc = "popen"]
    /\ UNCHANGED <<calVars, slice_call, target_call, helperVars, serviceVars,
                   jobs_store, cancel_returns>>

\* subprocess.Popen: the child starts and rec.pid is set, or Popen raises.
Popen ==
    /\ \E i \in 1..Len(jobs) :
         /\ jobs[i].pc = "popen"
         /\ \/ jobs' = [jobs EXCEPT ![i].pid = ChildPid, ![i].pc = "wait"]
            \/ jobs' = [jobs EXCEPT ![i].pc = "except"]
    /\ UNCHANGED <<calVars, slice_call, target_call, helperVars, serviceVars,
                   jobs_store, cancel_returns>>

\* proc.wait() returns and the worker reads rec.cancelled and the return
\* code (lines 226-232), or a statement before that raises.
Wait ==
    /\ \E i \in 1..Len(jobs) :
         /\ jobs[i].pc = "wait"
         /\ \/ \E returncode \in ReturnCodes :
                 jobs' = [jobs EXCEPT ![i].decided = decide(jobs[i].cancelled, returncode),
                                     ![i].pc = "assign"]
            \/ jobs' = [jobs EXCEPT ![i].pc = "except"]
    /\ UNCHANGED <<calVars, slice_call, target_call, helperVars, serviceVars,
                   jobs_store, cancel_returns>>

\* The assignment of the chosen status (lines 231, 233, 235).
Assign ==
    /\ \E i \in 1..Len(jobs) :
         /\ jobs[i].pc = "assign"
         /\ jobs' = [jobs EXCEPT ![i].status = jobs[i].decided, ![i].pc = "finally"]
    /\ UNCHANGED <<calVars, slice_call, target_call, helperVars, serviceVars,
                   jobs_store, cancel_returns>>

\* except Exception: rec.status = "failed".
Except ==
    /\ \E i \in 1..Len(jobs) :
         /\ jobs[i].pc = "except"
         /\ jobs' = [jobs EXCEPT ![i].status = "failed", ![i].pc = "finally"]
    /\ UNCHANGED <<calVars, slice_call, target_call, helperVars, serviceVars,
                   jobs_store, cancel_returns>>

\* finally: self._persist(rec); an IO error of the write is swallowed and
\* leaves the file as it was.
Persist ==
    /\ \E i \in 1..Len(jobs) :
         /\ jobs[i].pc = "finally"
         /\ jobs' = [jobs EXCEPT ![i].pc = "done"]
         /\ \/ jobs_store' = _persist(jobs_store, i, jobs[i])
            \/ jobs_store' = jobs_store
    /\ UNCHANGED <<calVars, slice_call, target_call, helperVars, serviceVars, cancel_returns>>

\* JobManager(): the records of the persistence file are hydrated.
InitJobs ==
    /\ lines = <<>>
    /\ phase = "boot"
    /\ calendar_dates = <<>>
    /\ calendar_index = <<>>
    /\ slice_call = NoSliceCall
    /\ target_call = NoTargetCall
    /\ stat_call = NoCall
    /\ power_call = NoCall
    /\ dd_call = NoCall
    /\ index_call = NoCall
    /\ request_call = NoCall
    /\ scan_call = NoCall
    /\ http_call = NoCall
    /\ jobs_store \in PriorStores
    /\ jobs = [i \in 1..Len(jobs_store) |-> hydrated(jobs_store[i])]
    /\ cancel_returns = [i \in 1..Len(jobs_store) |-> {}]

NextJobs == Run \/ Cancel \/ Start \/ Popen \/ Wait \/ Assign \/ Except \/ Persist

SpecJobs == InitJobs /\ [][NextJobs]_vars

\* ------------------------------------------------ claims on the job manager
\* The moves of a job's status the claim allows.
AllowedMove(old, new) ==
    \/ new = old
    \/ old = "queued" /\ new = "running"
    \/ old = "running" /\ new \in {"succeeded", "failed", "cancelled"}
LinesOf(i) == {n \in 1..Len(jobs_store) : jobs_store[n].id = i}
StatusMoves ==
    \A i \in 1..Len(jobs) : AllowedMove(jobs[i].status, jobs'[i].status)
PersistedOnceWhenTerminal ==
    \A i \in 1..Len(jobs) :
        /\ Cardinality(LinesOf(i)) <= 1
        /\ \A n \in LinesOf(i) :
               /\ jobs_store[n].status \in {"succeeded", "failed", "cancelled"}
               /\ jobs_store[n].status = jobs[i].status

\* C29: under every interleaving of run, cancel and the workers a job's
\* status only moves queued -> running -> succeeded, failed or cancelled, a
\* terminal status never changes, and the job has at most one line in the
\* persistence file, written in its terminal status.
C29_StatusMovesAndPersistsOnce ==
    [][StatusMoves]_vars /\ []PersistedOnceWhenTerminal

\* Two jobs have finished and are persisted, one of them cancelled while it
\* ran.
C29_Witness ==
    /\ Len(jobs) = 2
    /\ \A i \in 1..2 : jobs[i].pc = "done" /\ Cardinality(LinesOf(i)) = 1
    /\ \E i \in 1..2 : jobs[i].status = "cancelled" /\ "running" \in cancel_returns[i]
    /\ \E i \in 1..2 : jobs[i].status = "succeeded"

\* C30: when cancel() returned True while the job was queued or running, the
\* job never ends in status succeeded.
C30_CancelledNeverSucceeds ==
    \A i \in 1..Len(jobs) :
        (cancel_returns[i] \cap {"queued", "running"} # {}) =>
            jobs[i].status # "succeeded"


====
